---- MODULE Spec2Model ----
(***************************************************************************)
(* BeatDock: the search-session store (src/utils/searchSessions.js), the   *)
(* search navigation handler (src/interactions/searchNavigation.js), the   *)
(* button router (events/interactionCreate.js) and the now-playing message *)
(* registry (src/utils/PlayerController.js).                               *)
(*                                                                         *)
(* Strings that the code builds and parses (session ids, custom ids) are   *)
(* sequences of atoms: an atom is a word without delimiter, or one of the  *)
(* delimiter characters "_", ":" and "-".                                  *)
(***************************************************************************)
EXTENDS Integers, Sequences, FiniteSets, TLC

VARIABLES
    now,            \* Date.now(), in milliseconds
    sessions,       \* SearchSessionManager.sessions: sessionId -> sessionData
    returnedIds,    \* the ids createSession has returned so far, in order
    call,           \* the last store operation performed, its arguments and result
    nextSweep,      \* the clock reading at which the cleanup interval fires next
    player,         \* client.lavalink.getPlayer(guild.id): the guild's player
    immediates,     \* the setImmediate callbacks scheduled and not yet run
    searching,      \* /search commands suspended at player.search
    reply,          \* how the interaction handled last was answered
    playerMessages, \* PlayerController.playerMessages: guildId -> message record
    live,           \* the now-playing messages posted and not deleted
    nextMessageId,  \* the id Discord gives to the next message posted
    calls,          \* per caller, where its PlayerController call is suspended
    activePlayers,  \* client.activePlayers: the guilds with a track playing
    queueMessage,   \* the queue view shown last, with its buttons
    shutdown        \* the ShutdownManager and the exit of the process

storeVars == <<now, sessions, returnedIds, call>>
msgVars == <<playerMessages, live, nextMessageId, calls, activePlayers,
            queueMessage, shutdown>>
searchVars == <<now, sessions, returnedIds, call, nextSweep, immediates, searching, reply>>
searchRest == <<now, sessions, returnedIds, nextSweep, immediates, searching, reply>>
progVars == <<nextSweep, player, immediates, searching, reply, msgVars>>
vars == <<now, sessions, returnedIds, call, nextSweep, player, immediates,
          searching, reply, playerMessages, live, nextMessageId, calls,
          activePlayers, queueMessage, shutdown>>

----------------------------------------------------------------------------
(* Program constants *)

TRACKS_PER_PAGE == 5
SESSION_MAX_AGE == 1800000
SWEEP_INTERVAL == 300000

(* Bounds of the model *)

MaxNow == 2          \* the store is exercised for clock readings 0..MaxNow
MaxCreates == 2      \* createSession calls in one run of the store
BigPage == 999       \* a requested page far above every page count
LowPage == 5         \* -LowPage is a requested page far below 1

Users == {"u1", "u2"}
Guilds == {"g1"}

\* numbers of tracks a session is created with: none, and three pages of
\* which the last is partial
TrackCounts == {0, 2 * TRACKS_PER_PAGE + 1}

\* requested pages, as in "requesting page -5 or 999"
PageRequests == {0 - LowPage, 0, 2, 3, BigPage}

\* max ages handed to cleanupOldSessions
MaxAges == {0, 1, SESSION_MAX_AGE}

----------------------------------------------------------------------------
(* Helpers *)

Max(a, b) == IF a >= b THEN a ELSE b
Min(a, b) == IF a <= b THEN a ELSE b

\* Math.ceil(a / b) for a >= 0, b > 0
Ceil(a, b) == (a + b - 1) \div b

\* the tracks of a search result: n track descriptors, named by their uri
Tracks(n) == [i \in 1..n |-> i - 1]

NoId == <<>>

\* `${userId}-${Date.now()}`
SessionIdOf(userId, t) == <<userId, "-", ToString(t)>>

Restrict(S, ids) == [id \in ids |-> S[id]]

----------------------------------------------------------------------------
(* SearchSessionManager: each method is an operator from the store (and    *)
(* the clock) to the store after the call and the value returned.          *)

createSession(S, t, userId, guildId, tracks) ==
    LET sessionId == SessionIdOf(userId, t)
        sessionData == [ sessionId      |-> sessionId,
                         userId         |-> userId,
                         guildId        |-> guildId,
                         tracks         |-> tracks,
                         selectedTracks |-> {},
                         queuedTracks   |-> {},
                         currentPage    |-> 1,
                         tracksPerPage  |-> TRACKS_PER_PAGE,
                         createdAt      |-> t ]
    IN  [ sessions |-> [id \in DOMAIN S \cup {sessionId} |->
                            IF id = sessionId THEN sessionData ELSE S[id]],
          ret |-> sessionId ]

updatePage_NoClamp(S, sessionId, page) ==
    IF sessionId \notin DOMAIN S
    THEN [sessions |-> S, ret |-> FALSE]
    ELSE [ sessions |-> [S EXCEPT ![sessionId].currentPage = page],
           ret |-> TRUE ]

updatePage_NoLowerClamp(S, sessionId, page) ==
    IF sessionId \notin DOMAIN S
    THEN [sessions |-> S, ret |-> FALSE]
    ELSE LET session == S[sessionId]
             totalPages == Ceil(Len(session.tracks), session.tracksPerPage)
             validPage == Min(page, totalPages)
         IN  [ sessions |-> [S EXCEPT ![sessionId].currentPage = validPage],
               ret |-> TRUE ]

updatePage(S, sessionId, page) ==
    IF sessionId \notin DOMAIN S
    THEN [sessions |-> S, ret |-> FALSE]
    ELSE LET session == S[sessionId]
             totalPages == Ceil(Len(session.tracks), session.tracksPerPage)
             validPage == Max(1, Min(page, totalPages))
         IN  [ sessions |-> [S EXCEPT ![sessionId].currentPage = validPage],
               ret |-> TRUE ]

\* a toggle that accepts every index from 0 on
toggleTrackSelection_NoUpperBound(S, sessionId, trackIndex) ==
    IF \/ sessionId \notin DOMAIN S
       \/ trackIndex < 0
    THEN [sessions |-> S, ret |-> FALSE]
    ELSE IF trackIndex \in S[sessionId].selectedTracks
         THEN [ sessions |-> [S EXCEPT ![sessionId].selectedTracks = @ \ {trackIndex}],
                ret |-> FALSE ]
         ELSE [ sessions |-> [S EXCEPT ![sessionId].selectedTracks = @ \cup {trackIndex}],
                ret |-> TRUE ]

\* a toggle that only ever selects
toggleTrackSelection_AddOnly(S, sessionId, trackIndex) ==
    IF \/ sessionId \notin DOMAIN S
       \/ trackIndex < 0
       \/ trackIndex >= Len(S[sessionId].tracks)
    THEN [sessions |-> S, ret |-> FALSE]
    ELSE [ sessions |-> [S EXCEPT ![sessionId].selectedTracks = @ \cup {trackIndex}],
           ret |-> TRUE ]

toggleTrackSelection(S, sessionId, trackIndex) ==
    IF \/ sessionId \notin DOMAIN S
       \/ trackIndex < 0
       \/ trackIndex >= Len(S[sessionId].tracks)
    THEN [sessions |-> S, ret |-> FALSE]
    ELSE IF trackIndex \in S[sessionId].selectedTracks
         THEN [ sessions |-> [S EXCEPT ![sessionId].selectedTracks = @ \ {trackIndex}],
                ret |-> FALSE ]
         ELSE [ sessions |-> [S EXCEPT ![sessionId].selectedTracks = @ \cup {trackIndex}],
                ret |-> TRUE ]

markTrackQueued(S, sessionId, trackIndex) ==
    IF \/ sessionId \notin DOMAIN S
       \/ trackIndex < 0
       \/ trackIndex >= Len(S[sessionId].tracks)
    THEN [sessions |-> S, ret |-> FALSE]
    ELSE [ sessions |-> [S EXCEPT ![sessionId].queuedTracks = @ \cup {trackIndex}],
           ret |-> TRUE ]

unmarkTrackQueued(S, sessionId, trackIndex) ==
    IF sessionId \notin DOMAIN S
    THEN [sessions |-> S, ret |-> FALSE]
    ELSE [ sessions |-> [S EXCEPT ![sessionId].queuedTracks = @ \ {trackIndex}],
           ret |-> TRUE ]

\* a deleteSession that reports whether the session is stored and keeps it
deleteSession_OnlyReports(S, sessionId) ==
    [ sessions |-> S,
      ret |-> sessionId \in DOMAIN S ]

deleteSession(S, sessionId) ==
    [ sessions |-> Restrict(S, DOMAIN S \ {sessionId}),
      ret |-> sessionId \in DOMAIN S ]

\* what a method returns for "no such session" or "no such value"
Null == [null |-> TRUE]

\* this.sessions.get(sessionId) || null
getSession(S, sessionId) ==
    [ sessions |-> S,
      ret |-> IF sessionId \in DOMAIN S THEN S[sessionId] ELSE Null ]

\* Array.from(set): the members of a set of indices in some order of
\* insertion, which the store does not fix; here in ascending order
RECURSIVE ArrayFrom(_)
ArrayFrom(set) ==
    IF set = {} THEN <<>>
    ELSE LET least == CHOOSE i \in set : \A j \in set : i <= j
         IN  <<least>> \o ArrayFrom(set \ {least})

getSelectedTracks(S, sessionId) ==
    IF sessionId \notin DOMAIN S
    THEN [sessions |-> S, ret |-> <<>>]
    ELSE LET session == S[sessionId]
             indices == ArrayFrom(session.selectedTracks)
         IN  [ sessions |-> S,
               ret |-> [k \in 1..Len(indices) |-> session.tracks[indices[k] + 1]] ]

\* Array.prototype.slice(start, end): a negative bound counts from the end,
\* and both bounds are cut to the array
Slice(array, start, end) ==
    LET len == Len(array)
        from == IF start < 0 THEN Max(len + start, 0) ELSE Min(start, len)
        to == IF end < 0 THEN Max(len + end, 0) ELSE Min(end, len)
    IN  SubSeq(array, from + 1, to)

\* a page view whose window starts one page late
getCurrentPageData_OneBased(S, sessionId) ==
    IF sessionId \notin DOMAIN S
    THEN [sessions |-> S, ret |-> Null]
    ELSE LET session == S[sessionId]
             tracks == session.tracks
             currentPage == session.currentPage
             tracksPerPage == session.tracksPerPage
             totalPages == Ceil(Len(tracks), tracksPerPage)
             startIndex == Min(currentPage * tracksPerPage, Len(tracks))
             endIndex == Min(startIndex + tracksPerPage, Len(tracks))
         IN  [ sessions |-> S,
               ret |-> [ tracks         |-> Slice(tracks, startIndex, endIndex),
                         currentPage    |-> currentPage,
                         totalPages     |-> totalPages,
                         totalTracks    |-> Len(tracks),
                         hasNext        |-> currentPage < totalPages,
                         hasPrevious    |-> currentPage > 1,
                         startIndex     |-> startIndex,
                         endIndex       |-> endIndex,
                         selectedTracks |-> ArrayFrom(session.selectedTracks),
                         selectedCount  |-> Cardinality(session.selectedTracks) ] ]

getCurrentPageData(S, sessionId) ==
    IF sessionId \notin DOMAIN S
    THEN [sessions |-> S, ret |-> Null]
    ELSE LET session == S[sessionId]
             tracks == session.tracks
             currentPage == session.currentPage
             tracksPerPage == session.tracksPerPage
             totalPages == Ceil(Len(tracks), tracksPerPage)
             startIndex == (currentPage - 1) * tracksPerPage
             endIndex == Min(startIndex + tracksPerPage, Len(tracks))
         IN  [ sessions |-> S,
               ret |-> [ tracks         |-> Slice(tracks, startIndex, endIndex),
                         currentPage    |-> currentPage,
                         totalPages     |-> totalPages,
                         totalTracks    |-> Len(tracks),
                         hasNext        |-> currentPage < totalPages,
                         hasPrevious    |-> currentPage > 1,
                         startIndex     |-> startIndex,
                         endIndex       |-> endIndex,
                         selectedTracks |-> ArrayFrom(session.selectedTracks),
                         selectedCount  |-> Cardinality(session.selectedTracks) ] ]

isTrackQueued(S, sessionId, trackIndex) ==
    [ sessions |-> S,
      ret |-> /\ sessionId \in DOMAIN S
              /\ trackIndex \in S[sessionId].queuedTracks ]

clearSelections(S, sessionId) ==
    IF sessionId \notin DOMAIN S
    THEN [sessions |-> S, ret |-> FALSE]
    ELSE [ sessions |-> [S EXCEPT ![sessionId].selectedTracks = {}],
           ret |-> TRUE ]

cleanupOldSessions_AtLeast(S, t, maxAge) ==
    LET old == {id \in DOMAIN S : t - S[id].createdAt >= maxAge}
    IN  [ sessions |-> Restrict(S, DOMAIN S \ old),
          ret |-> Cardinality(old) ]

cleanupOldSessions_CountsAll(S, t, maxAge) ==
    LET old == {id \in DOMAIN S : t - S[id].createdAt > maxAge}
    IN  [ sessions |-> Restrict(S, DOMAIN S \ old),
          ret |-> Cardinality(DOMAIN S) ]

\* a sweep that reads the age from the clock reading it runs at, so that no
\* session is ever old
cleanupOldSessions_AgeZero(S, t, maxAge) ==
    LET old == {id \in DOMAIN S : t - t > maxAge}
    IN  [ sessions |-> Restrict(S, DOMAIN S \ old),
          ret |-> Cardinality(old) ]

cleanupOldSessions(S, t, maxAge) ==
    LET old == {id \in DOMAIN S : t - S[id].createdAt > maxAge}
    IN  [ sessions |-> Restrict(S, DOMAIN S \ old),
          ret |-> Cardinality(old) ]

----------------------------------------------------------------------------
(* The store driven through its public methods *)

Range(f) == {f[i] : i \in DOMAIN f}

\* the user ids createSession is called with
StoreCallers == {"u1"}

\* an id no createSession call returns
UnknownId == <<"u0", "-", "0">>

\* the ids a caller may pass: the id of every stored session, and an id of
\* no session (an absent session is absent whatever its id)
KnownIds == DOMAIN sessions \cup {UnknownId}

\* track indices a caller may pass to a session of n tracks
ProbeIndices(n) == {-1, 0, n}

LenOf(S, id) == IF id \in DOMAIN S THEN Len(S[id].tracks) ELSE 0

\* the record of an operation whose arguments and result no property reads
Quiet == [op |-> "other", id |-> NoId, arg |-> 0, ret |-> FALSE, count |-> 0]

\* the callers of the PlayerController: /play, the delayed refresh of a search
\* toggle, and the lavalink events that end in deletePlayer
Callers == {"play", "toggle", "event", "trackEnd"}

\* the callers that end in deletePlayer
EventCallers == {"event", "trackEnd"}

\* a caller with no PlayerController call under way
Idle == [pc |-> "idle", messageId |-> 0]

\* no interaction was handled in the last step
NoReply == [text |-> "none", userId |-> "none", sessionId |-> NoId,
            touched |-> FALSE, shouldUpdate |-> FALSE, responseMessage |-> FALSE]

\* `gen` numbers the player objects created for the guild: a callback or a
\* suspended command holds one object, which may have been destroyed since
\* `previous` is queue.previous, the history, latest first; `tagged` and
\* `untagged` hold the tracks whose pluginInfo.clientData.previousTrack is
\* true, and false
NoPlayer == [exists |-> FALSE, gen |-> 0, queue |-> <<>>, current |-> -1,
             playing |-> FALSE, paused |-> FALSE, repeatMode |-> "off",
             previous |-> <<>>, tagged |-> {}, untagged |-> {}]

\* player.destroy()
Destroyed(P) == [NoPlayer EXCEPT !.gen = P.gen]

\* client.lavalink.createPlayer(...)
CreatePlayer(P) == [NoPlayer EXCEPT !.exists = TRUE, !.gen = P.gen + 1]

\* no queue view has been shown: the shape of createPaginatedQueueResponse's
\* result for an empty queue, which carries no button
NoView == [ empty |-> TRUE, currentPage |-> 1, totalPages |-> 1,
            listed |-> <<>>, nav |-> FALSE,
            prev |-> [page |-> 0, disabled |-> TRUE],
            next |-> [page |-> 0, disabled |-> TRUE],
            jumps |-> <<>> ]

\* new ShutdownManager(): `started` and `settled` go with cleanupTasks, entry
\* by entry: how often the task was called, and whether its promise has
\* settled; `executing` is the number of tasks executeCleanupTasks found;
\* exitCode is -1 while the process runs
NoShutdown == [ isShuttingDown |-> FALSE, cleanupTasks |-> <<>>,
                started |-> <<>>, settled |-> <<>>, executing |-> 0,
                forceExitTimer |-> FALSE, pc |-> "idle", exitCode |-> -1 ]

StoreInit ==
    /\ now = 0
    /\ sessions = <<>>
    /\ returnedIds = <<>>
    /\ call = Quiet
    /\ nextSweep = SWEEP_INTERVAL
    /\ player = NoPlayer
    /\ immediates = <<>>
    /\ searching = {}
    /\ reply = NoReply
    /\ playerMessages = <<>>
    /\ live = {}
    /\ nextMessageId = 1
    /\ calls = [c \in Callers |-> Idle]
    /\ activePlayers = {}
    /\ queueMessage = NoView
    /\ shutdown = NoShutdown

StoreTick ==
    /\ now < MaxNow
    /\ now' = now + 1
    /\ call' = Quiet
    /\ UNCHANGED <<sessions, returnedIds>>
    /\ UNCHANGED progVars

CallCreateSession ==
    \E userId \in StoreCallers, guildId \in Guilds, n \in TrackCounts :
        LET r == createSession(sessions, now, userId, guildId, Tracks(n))
        IN  /\ Len(returnedIds) < MaxCreates
            /\ sessions' = r.sessions
            /\ returnedIds' = Append(returnedIds, r.ret)
            /\ call' = [op |-> "createSession", id |-> r.ret, arg |-> n, ret |-> TRUE,
                        count |-> 0]
            /\ UNCHANGED now
            /\ UNCHANGED progVars

CallUpdatePage ==
    \E id \in KnownIds, page \in PageRequests :
        LET r == updatePage(sessions, id, page)
        IN  /\ sessions' = r.sessions
            /\ call' = [op |-> "updatePage", id |-> id, arg |-> page, ret |-> r.ret,
                        count |-> 0]
            /\ UNCHANGED <<now, returnedIds>>
            /\ UNCHANGED progVars

CallToggleTrackSelection ==
    \E id \in KnownIds :
        \E trackIndex \in ProbeIndices(LenOf(sessions, id)) :
            LET r == toggleTrackSelection(sessions, id, trackIndex)
            IN  /\ sessions' = r.sessions
                /\ call' = Quiet
                /\ UNCHANGED <<now, returnedIds>>
                /\ UNCHANGED progVars

CallMarkTrackQueued ==
    \E id \in KnownIds :
        \E trackIndex \in ProbeIndices(LenOf(sessions, id)) :
            LET r == markTrackQueued(sessions, id, trackIndex)
            IN  /\ sessions' = r.sessions
                /\ call' = Quiet
                /\ UNCHANGED <<now, returnedIds>>
                /\ UNCHANGED progVars

CallUnmarkTrackQueued ==
    \E id \in KnownIds :
        \E trackIndex \in ProbeIndices(LenOf(sessions, id)) :
            LET r == unmarkTrackQueued(sessions, id, trackIndex)
            IN  /\ sessions' = r.sessions
                /\ call' = Quiet
                /\ UNCHANGED <<now, returnedIds>>
                /\ UNCHANGED progVars

CallDeleteSession ==
    \E id \in KnownIds :
        LET r == deleteSession(sessions, id)
        IN  /\ sessions' = r.sessions
            /\ call' = Quiet
            /\ UNCHANGED <<now, returnedIds>>
            /\ UNCHANGED progVars

CallClearSelections ==
    \E id \in KnownIds :
        LET r == clearSelections(sessions, id)
        IN  /\ sessions' = r.sessions
            /\ call' = Quiet
            /\ UNCHANGED <<now, returnedIds>>
            /\ UNCHANGED progVars

\* the page view of a stored session, as built for the search message
CallGetCurrentPageData ==
    \E id \in DOMAIN sessions :
        LET r == getCurrentPageData(sessions, id)
        IN  /\ sessions' = r.sessions
            /\ call' = [op |-> "getCurrentPageData", id |-> id, arg |-> 0,
                        ret |-> TRUE, count |-> 0, data |-> r.ret]
            /\ UNCHANGED <<now, returnedIds>>
            /\ UNCHANGED progVars

CallCleanupOldSessions ==
    \E maxAge \in MaxAges :
        LET r == cleanupOldSessions(sessions, now, maxAge)
        IN  /\ sessions' = r.sessions
            /\ call' = [op |-> "cleanupOldSessions", id |-> NoId,
                        arg |-> maxAge, ret |-> TRUE, count |-> r.ret]
            /\ UNCHANGED <<now, returnedIds>>
            /\ UNCHANGED progVars

StoreNext ==
    \/ StoreTick
    \/ CallCreateSession
    \/ CallUpdatePage
    \/ CallToggleTrackSelection
    \/ CallMarkTrackQueued
    \/ CallUnmarkTrackQueued
    \/ CallDeleteSession
    \/ CallClearSelections
    \/ CallGetCurrentPageData
    \/ CallCleanupOldSessions

StoreSpec == StoreInit /\ [][StoreNext]_vars

----------------------------------------------------------------------------
(* Custom ids: built by the search UI builders, parsed by the handlers *)

\* String.prototype.split on a one-character separator
RECURSIVE Split(_, _)
Split(s, sep) ==
    IF \A i \in 1..Len(s) : s[i] # sep
    THEN <<s>>
    ELSE LET k == CHOOSE i \in 1..Len(s) :
                      s[i] = sep /\ \A j \in 1..(i - 1) : s[j] # sep
         IN  <<SubSeq(s, 1, k - 1)>> \o Split(SubSeq(s, k + 1, Len(s)), sep)

\* `search${sep}${action}${sep}${sessionId}`: sep is "_" in createSearchButtons
\* of searchNavigation.js and ":" in createSearchComponents and utils/embeds.js
NavCustomId(sep, action, sessionId) == <<"search", sep, action, sep>> \o sessionId

\* `search${sep}toggle${sep}${sessionId}${sep}${globalIndex}`
ToggleCustomId(sep, sessionId, globalIndex) ==
    NavCustomId(sep, "toggle", sessionId) \o <<sep, ToString(globalIndex)>>

\* the indices a decimal numeral of the model can denote
IndexRange == 0..(2 * TRACKS_PER_PAGE)

\* parseInt of one part of a split id: a numeral, a numeral with a sign, or NaN
parseInt(part) ==
    IF Len(part) = 1 /\ \E k \in IndexRange : ToString(k) = part[1]
    THEN [nan |-> FALSE, n |-> CHOOSE k \in IndexRange : ToString(k) = part[1]]
    ELSE IF Len(part) = 2 /\ part[1] = "-"
                /\ \E k \in IndexRange : ToString(k) = part[2]
         THEN [nan |-> FALSE,
               n |-> 0 - (CHOOSE k \in IndexRange : ToString(k) = part[2])]
         ELSE [nan |-> TRUE, n |-> 0]

----------------------------------------------------------------------------
(* handleSearchNavigation *)

NoParse == [ok |-> FALSE, action |-> <<>>, sessionId |-> NoId, extra |-> <<>>]

\* the handler's reading of the custom id
ParseNavigationId(customId) ==
    LET parts == Split(customId, "_")
    IN  IF Len(parts) < 3
        THEN NoParse
        ELSE LET prefix == parts[1]
                 action == parts[2]
                 rest == SubSeq(parts, 3, Len(parts))
             IN  IF prefix # <<"search">>
                 THEN NoParse
                 ELSE IF action = <<"toggle">>
                      THEN IF Len(rest) < 2
                           THEN NoParse
                           ELSE [ok |-> TRUE, action |-> action,
                                 sessionId |-> rest[1], extra |-> Tail(rest)]
                      ELSE IF action = <<"add">> /\ rest[1] = <<"selected">>
                           THEN IF Len(rest) < 2
                                THEN NoParse
                                ELSE [ok |-> TRUE, action |-> action,
                                      sessionId |-> rest[2], extra |-> <<<<"selected">>>>]
                           ELSE [ok |-> TRUE, action |-> action,
                                 sessionId |-> rest[1], extra |-> Tail(rest)]

\* interaction.reply or interaction.update with the message of that key, to
\* the user who pressed a button of the session the handler looked up
Reply(text, userId, sessionId) ==
    [NoReply EXCEPT !.text = text, !.userId = userId, !.sessionId = sessionId]

\* interaction.deferUpdate(): `touched` tells that the owner paged or toggled;
\* shouldUpdate and responseMessage are the handler's variables of these names
\* at the await, which decide whether it edits the search message and sends a
\* follow-up once the acknowledgment has returned
Deferred(userId, sessionId, touched, shouldUpdate, responseMessage) ==
    [text |-> "deferUpdate", userId |-> userId, sessionId |-> sessionId,
     touched |-> touched, shouldUpdate |-> shouldUpdate,
     responseMessage |-> responseMessage]

\* what one run of the handler does: the store it leaves, the callbacks it
\* hands to setImmediate and its answer to the interaction; `call` is Quiet
\* unless the handler called toggleTrackSelection
Outcome(S, imm, answer) ==
    [sessions |-> S, immediates |-> imm, reply |-> answer, call |-> Quiet]

\* the record of searchSessions.toggleTrackSelection(sessionId, trackIndex)
Toggled(o, sessionId, trackIndex, isSelected) ==
    [o EXCEPT !.call = [op |-> "toggleTrackSelection", id |-> sessionId,
                        arg |-> trackIndex, ret |-> isSelected, count |-> 0]]

\* the setImmediate callback of a toggle, with the variables it closes over
Callback(kind, S, P, sessionId, trackIndex) ==
    [kind |-> kind, sessionId |-> sessionId, trackIndex |-> trackIndex,
     track |-> S[sessionId].tracks[trackIndex + 1], gen |-> P.gen]

\* the switch on the action, reached by the owner while a player exists
NavigationSwitch(parsed, userId, S, P) ==
    LET sessionId == parsed.sessionId
        action == parsed.action
    IN  IF action = <<"prev">> \/ action = <<"next">>
        THEN LET page == S[sessionId].currentPage +
                             (IF action = <<"next">> THEN 1 ELSE -1)
                 r == updatePage(S, sessionId, page)
             IN  Outcome(r.sessions, <<>>,
                         Deferred(userId, sessionId, TRUE, r.ret, FALSE))
        ELSE IF action = <<"toggle">>
        THEN LET trackIndex == parseInt(parsed.extra[1])
             IN  IF trackIndex.nan
                 THEN Outcome(S, <<>>, Deferred(userId, sessionId, TRUE, FALSE, FALSE))
                 ELSE LET r == toggleTrackSelection(S, sessionId, trackIndex.n)
                          hasTrack == /\ trackIndex.n >= 0
                                      /\ trackIndex.n < Len(S[sessionId].tracks)
                      IN  Toggled(
                            IF ~hasTrack
                            THEN Outcome(r.sessions, <<>>,
                                         Deferred(userId, sessionId, TRUE, TRUE, FALSE))
                            ELSE Outcome(r.sessions,
                                         <<Callback(IF r.ret THEN "add" ELSE "remove",
                                                    S, P, sessionId, trackIndex.n)>>,
                                         Deferred(userId, sessionId, TRUE, TRUE, TRUE)),
                            sessionId, trackIndex.n, r.ret)
        ELSE IF action = <<"cancel">>
        THEN Outcome(deleteSession(S, sessionId).sessions, <<>>,
                     Reply("update", userId, sessionId))
        ELSE Outcome(S, <<>>, Deferred(userId, sessionId, FALSE, FALSE, FALSE))

handleSearchNavigation_NoOwnerCheck(customId, userId, S, P) ==
    LET parsed == ParseNavigationId(customId)
        sessionId == parsed.sessionId
    IN  IF ~parsed.ok
        THEN Outcome(S, <<>>, NoReply)
        ELSE IF sessionId \notin DOMAIN S
        THEN Outcome(S, <<>>, Reply("SEARCH_SESSION_EXPIRED", userId, sessionId))
        ELSE IF ~P.exists
        THEN IF parsed.action = <<"prev">> \/ parsed.action = <<"next">>
             THEN Outcome(S, <<>>, Reply("SEARCH_PLAYER_STOPPED", userId, sessionId))
             ELSE Outcome(deleteSession(S, sessionId).sessions, <<>>,
                          Reply("SEARCH_PLAYER_STOPPED", userId, sessionId))
        ELSE NavigationSwitch(parsed, userId, S, P)

\* the handler, had it deleted the session for every action once the player
\* is gone
handleSearchNavigation_AlwaysDeletes(customId, userId, S, P) ==
    LET parsed == ParseNavigationId(customId)
        sessionId == parsed.sessionId
    IN  IF ~parsed.ok
        THEN Outcome(S, <<>>, NoReply)
        ELSE IF sessionId \notin DOMAIN S
        THEN Outcome(S, <<>>, Reply("SEARCH_SESSION_EXPIRED", userId, sessionId))
        ELSE IF S[sessionId].userId # userId
        THEN Outcome(S, <<>>, Reply("SEARCH_NOT_YOUR_SESSION", userId, sessionId))
        ELSE IF ~P.exists
        THEN Outcome(deleteSession(S, sessionId).sessions, <<>>,
                     Reply("SEARCH_PLAYER_STOPPED", userId, sessionId))
        ELSE NavigationSwitch(parsed, userId, S, P)

handleSearchNavigation(customId, userId, S, P) ==
    LET parsed == ParseNavigationId(customId)
        sessionId == parsed.sessionId
    IN  IF ~parsed.ok
        THEN Outcome(S, <<>>, NoReply)
        ELSE IF sessionId \notin DOMAIN S
        THEN Outcome(S, <<>>, Reply("SEARCH_SESSION_EXPIRED", userId, sessionId))
        ELSE IF S[sessionId].userId # userId
        THEN Outcome(S, <<>>, Reply("SEARCH_NOT_YOUR_SESSION", userId, sessionId))
        ELSE IF ~P.exists
        THEN IF parsed.action = <<"prev">> \/ parsed.action = <<"next">>
             THEN Outcome(S, <<>>, Reply("SEARCH_PLAYER_STOPPED", userId, sessionId))
             ELSE Outcome(deleteSession(S, sessionId).sessions, <<>>,
                          Reply("SEARCH_PLAYER_STOPPED", userId, sessionId))
        ELSE NavigationSwitch(parsed, userId, S, P)

----------------------------------------------------------------------------
(* The program: /search, button interactions, deferred work, the cleanup   *)
(* interval, the clock and the player                                      *)

(* Bounds *)
MaxSearches == 1     \* /search commands in one run
MaxMs == 1           \* the clock is followed millisecond by millisecond up to here
MaxPlayers == 1      \* player objects created in one run
MaxPending == 1      \* setImmediate callbacks outstanding at once

\* beyond MaxMs the clock is read at the multiples of the sweep interval, up
\* to the reading by which every session created up to MaxMs has met a sweep
Horizon == SESSION_MAX_AGE + SWEEP_INTERVAL

\* numbers of tracks a search returns: no result, or two pages
SearchResults == {0, TRACKS_PER_PAGE + 1}

\* the track buttons pressed: the first track of the result
ToggleIndices == {0}

Separators == {"_", ":"}

\* the ids one builder puts on the buttons of the search messages sent so far
ButtonIds(sep, ids) ==
    {NavCustomId(sep, a, id) : a \in {"prev", "next", "cancel"}, id \in ids}
    \cup {ToggleCustomId(sep, id, i) : id \in ids, i \in ToggleIndices}

\* an index at which no search result of the model has a track
BeyondIndex == TRACKS_PER_PAGE + 1

\* toggle ids no builder emits: their index is beyond the tracks, or negative
OutOfRangeToggleIds(sep, ids) ==
    {ToggleCustomId(sep, id, BeyondIndex) : id \in ids}
    \cup {NavCustomId(sep, "toggle", id) \o <<sep, "-", "1">> : id \in ids}

Init == StoreInit

TickMs ==
    /\ now < MaxMs
    /\ now' = now + 1
    /\ call' = Quiet
    /\ reply' = NoReply
    /\ UNCHANGED <<sessions, returnedIds, nextSweep, player, immediates, searching, msgVars>>

\* the clock reaches the next multiple of the sweep interval; the interval's
\* callback is never a whole interval late
TickInterval ==
    /\ now < nextSweep
    /\ now + SWEEP_INTERVAL <= Horizon
    /\ now' = ((now \div SWEEP_INTERVAL) + 1) * SWEEP_INTERVAL
    /\ call' = Quiet
    /\ reply' = NoReply
    /\ UNCHANGED <<sessions, returnedIds, nextSweep, player, immediates, searching, msgVars>>

\* the interval's callback, had it passed the interval as the maximal age
TimerSweep_IntervalAsMaxAge ==
    /\ now >= nextSweep
    /\ immediates = <<>>
    /\ LET r == cleanupOldSessions(sessions, now, SWEEP_INTERVAL)
       IN  /\ sessions' = r.sessions
           /\ call' = [op |-> "cleanupOldSessions", id |-> NoId,
                       arg |-> SESSION_MAX_AGE, ret |-> TRUE, count |-> r.ret]
    /\ nextSweep' = now + SWEEP_INTERVAL
    /\ UNCHANGED <<now, returnedIds, player, immediates, searching, reply, msgVars>>

\* setInterval(() => this.cleanupOldSessions(1800000), 300000); timers run
\* once the setImmediate callbacks of the current loop iteration have run
TimerSweep ==
    /\ now >= nextSweep
    /\ immediates = <<>>
    /\ LET r == cleanupOldSessions(sessions, now, SESSION_MAX_AGE)
       IN  /\ sessions' = r.sessions
           /\ call' = [op |-> "cleanupOldSessions", id |-> NoId,
                       arg |-> SESSION_MAX_AGE, ret |-> TRUE, count |-> r.ret]
    /\ nextSweep' = now + SWEEP_INTERVAL
    /\ UNCHANGED <<now, returnedIds, player, immediates, searching, reply, msgVars>>

\* /search up to `await player.search`: get the guild's player or create one;
\* a member in another voice channel than the player's is turned away
SearchStart ==
    \E userId \in Users, sameVoiceChannel \in BOOLEAN :
        /\ now <= MaxMs
        /\ Len(returnedIds) + Cardinality(searching) < MaxSearches
        /\ userId \notin {c.userId : c \in searching}
        /\ player.exists \/ player.gen < MaxPlayers
        /\ IF player.exists /\ ~sameVoiceChannel
           THEN /\ reply' = Reply("ERROR_SAME_VOICE_CHANNEL", userId, NoId)
                /\ UNCHANGED <<player, searching>>
           ELSE /\ player' = IF player.exists THEN player ELSE CreatePlayer(player)
                /\ searching' = searching \cup
                       {[userId |-> userId, createdNewPlayer |-> ~player.exists,
                         gen |-> player'.gen]}
                /\ reply' = NoReply
        /\ call' = Quiet
        /\ UNCHANGED <<now, sessions, returnedIds, nextSweep, immediates, msgVars>>

\* /search from the search result on; the player it created is never connected
\* before a track is chosen
SearchDone ==
    \E c \in searching, n \in SearchResults :
        /\ searching' = searching \ {c}
        /\ IF n = 0
           THEN /\ player' = IF c.createdNewPlayer /\ player.exists /\ player.gen = c.gen
                             THEN Destroyed(player) ELSE player
                /\ reply' = Reply("NO_RESULTS", c.userId, NoId)
                /\ call' = Quiet
                /\ UNCHANGED <<sessions, returnedIds>>
           ELSE LET r == createSession(sessions, now, c.userId, "g1", Tracks(n))
                IN  /\ sessions' = r.sessions
                    /\ returnedIds' = Append(returnedIds, r.ret)
                    /\ call' = [op |-> "createSession", id |-> r.ret,
                                arg |-> n, ret |-> TRUE, count |-> 0]
                    /\ reply' = Reply("editReply", c.userId, NoId)
                    /\ UNCHANGED player
        /\ UNCHANGED <<now, nextSweep, immediates, msgVars>>

\* /search when the awaited player.search rejects: the catch block hands the
\* error to handleLavalinkError(interaction, error, client), which gets
\* neither the player nor createdNewPlayer, both local to the try block
SearchThrows ==
    \E c \in searching :
        /\ searching' = searching \ {c}
        /\ reply' = Reply("handleLavalinkError", c.userId, NoId)
        /\ call' = Quiet
        /\ UNCHANGED <<now, sessions, returnedIds, nextSweep, player, immediates,
                       msgVars>>

\* the handler, had it awaited the queue.add of a toggle before it
\* acknowledged the interaction
SearchNavigation_AddsBeforeDefer ==
    \E customId \in ButtonIds("_", Range(returnedIds))
                       \cup OutOfRangeToggleIds("_", Range(returnedIds)),
       userId \in Users :
        LET o == handleSearchNavigation(customId, userId, sessions, player)
            inline == o.immediates # <<>> /\ o.immediates[1].kind = "add"
        IN  /\ Len(immediates) < MaxPending
            /\ sessions' = o.sessions
            /\ immediates' = IF inline THEN immediates ELSE immediates \o o.immediates
            /\ player' = IF inline
                         THEN [player EXCEPT !.queue = Append(@, o.immediates[1].track)]
                         ELSE player
            /\ reply' = o.reply
            /\ call' = o.call
            /\ UNCHANGED <<now, returnedIds, nextSweep, searching, msgVars>>

\* an interaction handed to handleSearchNavigation, from a button made by the
\* createSearchButtons of the same file, or with a toggle id made up
SearchNavigation ==
    \E customId \in ButtonIds("_", Range(returnedIds))
                       \cup OutOfRangeToggleIds("_", Range(returnedIds)),
       userId \in Users :
        LET o == handleSearchNavigation(customId, userId, sessions, player)
        IN  /\ Len(immediates) < MaxPending
            /\ sessions' = o.sessions
            /\ immediates' = immediates \o o.immediates
            /\ reply' = o.reply
            /\ call' = o.call
            /\ UNCHANGED <<now, returnedIds, nextSweep, player, searching, msgVars>>

\* handleButtonInteraction, for a member allowed to use the bot: the component
\* named before the first colon selects the handler
handleButtonInteraction(customId, userId) ==
    LET component == Split(customId, ":")[1]
        o == IF component = <<"search">>
             THEN handleSearchNavigation(customId, userId, sessions, player)
             ELSE Outcome(sessions, <<>>, NoReply)
    IN  /\ Len(immediates) < MaxPending
        /\ sessions' = o.sessions
        /\ immediates' = immediates \o o.immediates
        /\ reply' = o.reply
        /\ call' = o.call
        /\ UNCHANGED <<now, returnedIds, nextSweep, player, searching, msgVars>>

\* a button interaction arriving at interactionCreate, from a button of either
\* builder
ButtonInteraction ==
    \/ /\ reply' = Reply("NO_PERMISSION", "none", NoId)
       /\ call' = Quiet
       /\ UNCHANGED <<now, sessions, returnedIds, nextSweep, player, immediates,
                      searching, msgVars>>
    \/ \E sep \in Separators, userId \in Users :
         \E customId \in ButtonIds(sep, Range(returnedIds)) :
             handleButtonInteraction(customId, userId)

\* player.play() with nothing given: the head of the queue becomes current
Play(P) ==
    IF P.queue = <<>> THEN P
    ELSE [P EXCEPT !.current = Head(P.queue), !.queue = Tail(P.queue),
                   !.playing = TRUE]

\* Array.prototype.findIndex on player.queue.tracks, by uri and title; 0 for -1
FindIndex(queue, track) ==
    IF \E i \in 1..Len(queue) : queue[i] = track
    THEN CHOOSE i \in 1..Len(queue) :
             queue[i] = track /\ \A j \in 1..(i - 1) : queue[j] # track
    ELSE 0

Splice(queue, i) == SubSeq(queue, 1, i - 1) \o SubSeq(queue, i + 1, Len(queue))

\* the oldest setImmediate callback of a toggle runs, on a live player
RunImmediate ==
    /\ immediates # <<>>
    /\ player.exists
    /\ player.gen = Head(immediates).gen
    /\ LET t == Head(immediates)
       IN  IF t.kind = "add"
           THEN /\ sessions' = markTrackQueued(sessions, t.sessionId, t.trackIndex).sessions
                /\ player' = LET added == [player EXCEPT !.queue = Append(@, t.track)]
                             IN  IF added.playing THEN added ELSE Play(added)
           ELSE LET queueIndex == FindIndex(player.queue, t.track)
                IN  IF queueIndex # 0
                    THEN /\ player' = [player EXCEPT !.queue = Splice(@, queueIndex)]
                         /\ sessions' = unmarkTrackQueued(sessions, t.sessionId,
                                                          t.trackIndex).sessions
                    ELSE UNCHANGED <<player, sessions>>
    /\ immediates' = Tail(immediates)
    /\ call' = Quiet
    /\ reply' = NoReply
    /\ UNCHANGED <<now, returnedIds, nextSweep, searching, msgVars>>

\* the callback runs after the player it holds was destroyed: the call on the
\* dead player either throws (caught, nothing more happens) or changes only
\* the dead player's queue
RunImmediateDestroyed ==
    /\ immediates # <<>>
    /\ ~(player.exists /\ player.gen = Head(immediates).gen)
    /\ LET t == Head(immediates)
       IN  \E throws \in BOOLEAN :
               sessions' = IF throws THEN sessions
                           ELSE IF t.kind = "add"
                           THEN markTrackQueued(sessions, t.sessionId, t.trackIndex).sessions
                           ELSE unmarkTrackQueued(sessions, t.sessionId, t.trackIndex).sessions
    /\ immediates' = Tail(immediates)
    /\ call' = Quiet
    /\ reply' = NoReply
    /\ UNCHANGED <<now, returnedIds, nextSweep, player, searching, msgVars>>

\* the current track ends: the next of the queue starts, or playback stops
TrackEnd ==
    /\ player.exists
    /\ player.playing
    /\ player' = IF player.queue = <<>>
                 THEN [player EXCEPT !.current = -1, !.playing = FALSE]
                 ELSE Play(player)
    /\ call' = Quiet
    /\ reply' = NoReply
    /\ UNCHANGED <<now, sessions, returnedIds, nextSweep, immediates,
                   searching, msgVars>>

\* player.destroy(), by /stop, the stop button or a disconnect
PlayerDestroy ==
    /\ player.exists
    /\ player' = Destroyed(player)
    /\ call' = Quiet
    /\ reply' = NoReply
    /\ UNCHANGED <<now, sessions, returnedIds, nextSweep, immediates,
                   searching, msgVars>>

Next ==
    \/ TickMs
    \/ TickInterval
    \/ TimerSweep
    \/ SearchStart
    \/ SearchDone
    \/ SearchThrows
    \/ SearchNavigation
    \/ ButtonInteraction
    \/ RunImmediate
    \/ RunImmediateDestroyed
    \/ TrackEnd
    \/ PlayerDestroy

Spec == Init /\ [][Next]_vars

\* the event loop runs every due timer and every setImmediate callback, and
\* the clock advances
LiveSpec ==
    /\ Spec
    /\ WF_vars(TickInterval)
    /\ WF_vars(RunImmediate)
    /\ WF_vars(RunImmediateDestroyed)
    /\ SF_vars(TimerSweep)

----------------------------------------------------------------------------
(* PlayerController: the registry of now-playing messages and its callers *)

(* Bounds *)
MaxMessages == 3     \* messages posted in one run
MaxQueue == 1        \* tracks waiting in the queue

\* playerMessages is a Map: each record carries in `position` the place of
\* its key in the order of insertion, which a set on a key already there
\* does not change

\* Map.prototype.delete on playerMessages
Forget(M, guildId) ==
    IF guildId \notin DOMAIN M THEN M
    ELSE [g \in DOMAIN M \ {guildId} |->
             IF M[g].position > M[guildId].position
             THEN [M[g] EXCEPT !.position = @ - 1]
             ELSE M[g]]

\* playerMessages.set(player.guildId, {messageId, channelId, createdAt})
Remember(M, guildId, messageId, channelId, t) ==
    [g \in DOMAIN M \cup {guildId} |->
        IF g = guildId
        THEN [messageId |-> messageId, channelId |-> channelId, createdAt |-> t,
              position |-> IF guildId \in DOMAIN M THEN M[guildId].position
                           ELSE Cardinality(DOMAIN M) + 1]
        ELSE M[g]]

Suspend(c, pc, messageId) == [calls EXCEPT ![c] = [pc |-> pc, messageId |-> messageId]]

\* /play up to the reply: the guild's player, made if there is none, gets the
\* track found and plays
PlayCommand ==
    /\ calls["play"].pc = "idle"
    /\ player.exists \/ player.gen < MaxPlayers
    /\ Len(player.queue) < MaxQueue
    /\ LET p == IF player.exists THEN player ELSE CreatePlayer(player)
           added == [p EXCEPT !.queue = Append(@, 0)]
       IN  /\ player' = IF added.playing THEN added ELSE Play(added)
           /\ activePlayers' = IF added.playing THEN activePlayers
                                ELSE activePlayers \cup Guilds
    /\ calls' = Suspend("play", "replied", 0)
    /\ call' = Quiet
    /\ UNCHANGED <<searchRest, queueMessage, shutdown, playerMessages, live, nextMessageId>>

\* the record of a step of updatePlayer or deletePlayer for a guild:
\* `outcome` tells how the step went, `ret` whether the method has returned
\* (it never rejects: that would be the outcome "threw")
Controller(op, guildId, outcome, returned) ==
    [op |-> op, id |-> NoId, arg |-> 0, ret |-> returned, count |-> 0,
     guildId |-> guildId, outcome |-> outcome]

\* how the awaited fetch and edit (or delete) of a message may end: both
\* resolve, one of them rejects, or the timer of withTimeout fires first
Failures == {"fetchFailed", "fetchTimeout", "actFailed", "actTimeout"}
Outcomes == {"done"} \cup Failures

\* updatePlayer up to its first await
updatePlayerStart(c, guildId, channelCached) ==
    IF ~player.exists \/ player.current = -1 \/ guildId \notin DOMAIN playerMessages
    THEN /\ calls' = [calls EXCEPT ![c] = Idle]
         /\ call' = Controller("updatePlayer", guildId, "nothingToDo", TRUE)
         /\ UNCHANGED playerMessages
    ELSE IF ~channelCached
    THEN /\ playerMessages' = Forget(playerMessages, guildId)
         /\ calls' = [calls EXCEPT ![c] = Idle]
         /\ call' = Controller("updatePlayer", guildId, "channelMissing", TRUE)
    ELSE /\ calls' = Suspend(c, "updating", playerMessages[guildId].messageId)
         /\ call' = Controller("updatePlayer", guildId, "awaiting", FALSE)
         /\ UNCHANGED playerMessages

\* sendPlayer up to `await channel.send`
sendPlayerStart(c) ==
    /\ calls' = IF player.current = -1 THEN [calls EXCEPT ![c] = Idle]
                ELSE Suspend(c, "sending", 0)
    /\ call' = Quiet
    /\ UNCHANGED playerMessages

\* the callers' "update the controller if a message is recorded, send one if
\* not": /play after its reply, and the timer a toggle's callback has set
RefreshController ==
    \E c \in {"play", "toggle"}, guildId \in Guilds, channelCached \in BOOLEAN :
        /\ IF c = "play" THEN calls[c].pc = "replied"
           ELSE calls[c].pc = "idle" /\ player.exists /\ player.playing
        /\ IF guildId \in DOMAIN playerMessages
           THEN updatePlayerStart(c, guildId, channelCached)
           ELSE sendPlayerStart(c)
        /\ UNCHANGED <<searchRest, queueMessage, shutdown, activePlayers, player, live, nextMessageId>>

\* Discord posts the message of a channel.send
SendPosted ==
    \E c \in Callers, guildId \in Guilds :
        /\ calls[c].pc = "sending"
        /\ nextMessageId <= MaxMessages
        /\ live' = live \cup {[messageId |-> nextMessageId, guildId |-> guildId]}
        /\ nextMessageId' = nextMessageId + 1
        /\ calls' = Suspend(c, "posted", nextMessageId)
        /\ call' = Quiet
        /\ UNCHANGED <<searchRest, queueMessage, shutdown, activePlayers, player, playerMessages>>

\* channel.send resolves within the 8 seconds: sendPlayer records the message
SendResolved ==
    \E c \in Callers, guildId \in Guilds :
        /\ calls[c].pc = "posted"
        /\ playerMessages' = Remember(playerMessages, guildId, calls[c].messageId,
                                       "c1", now)
        /\ calls' = [calls EXCEPT ![c] = Idle]
        /\ call' = Quiet
        /\ UNCHANGED <<searchRest, queueMessage, shutdown, activePlayers, player, live, nextMessageId>>

\* channel.send rejects, or the timeout wins the race, whether or not the
\* message got posted: sendPlayer logs and returns null
SendFailed ==
    \E c \in Callers :
        /\ calls[c].pc \in {"sending", "posted"}
        /\ calls' = [calls EXCEPT ![c] = Idle]
        /\ call' = Quiet
        /\ UNCHANGED <<searchRest, queueMessage, shutdown, activePlayers, player, playerMessages, live, nextMessageId>>

\* updatePlayer that drops the record on a rejection but not on a timeout
UpdateSettled_TimeoutKeepsRecord ==
    \E c \in Callers, guildId \in Guilds, outcome \in Outcomes :
        /\ calls[c].pc = "updating"
        /\ outcome = "done" => \E m \in live : m.messageId = calls[c].messageId
        /\ playerMessages' = IF outcome \in {"fetchFailed", "actFailed"}
                             THEN Forget(playerMessages, guildId)
                             ELSE playerMessages
        /\ calls' = [calls EXCEPT ![c] = Idle]
        /\ call' = Controller("updatePlayer", guildId, outcome, TRUE)
        /\ UNCHANGED <<searchRest, queueMessage, shutdown, activePlayers, player, live, nextMessageId>>

\* updatePlayer after its awaits: the fetch and the edit succeeded (the message
\* still there), or one of them failed or timed out and the record is dropped
UpdateSettled ==
    \E c \in Callers, guildId \in Guilds, outcome \in Outcomes :
        /\ calls[c].pc = "updating"
        /\ outcome = "done" => \E m \in live : m.messageId = calls[c].messageId
        /\ playerMessages' = IF outcome = "done" THEN playerMessages
                             ELSE Forget(playerMessages, guildId)
        /\ calls' = [calls EXCEPT ![c] = Idle]
        /\ call' = Controller("updatePlayer", guildId, outcome, TRUE)
        /\ UNCHANGED <<searchRest, queueMessage, shutdown, activePlayers, player, live, nextMessageId>>

\* the playerDestroy handler without its client.activePlayers.delete
DeletePlayerStart_KeepsPresence ==
    \E guildId \in Guilds, channelCached \in BOOLEAN :
        /\ calls["event"].pc = "idle"
        /\ player.exists
        /\ player' = Destroyed(player)
        /\ IF guildId \notin DOMAIN playerMessages
           THEN /\ call' = Controller("deletePlayer", guildId, "nothingToDo", TRUE)
                /\ UNCHANGED <<playerMessages, calls>>
           ELSE IF ~channelCached
           THEN /\ playerMessages' = Forget(playerMessages, guildId)
                /\ call' = Controller("deletePlayer", guildId, "channelMissing", TRUE)
                /\ UNCHANGED calls
           ELSE /\ calls' = Suspend("event", "deleting",
                                    playerMessages[guildId].messageId)
                /\ call' = Controller("deletePlayer", guildId, "awaiting", FALSE)
                /\ UNCHANGED playerMessages
        /\ UNCHANGED <<searchRest, queueMessage, shutdown, activePlayers, live, nextMessageId>>

\* a playerDestroy event: deletePlayer up to its first await
DeletePlayerStart ==
    \E guildId \in Guilds, channelCached \in BOOLEAN :
        /\ calls["event"].pc = "idle"
        /\ player.exists
        /\ player' = Destroyed(player)
        /\ IF guildId \notin DOMAIN playerMessages
           THEN /\ call' = Controller("deletePlayer", guildId, "nothingToDo", TRUE)
                /\ UNCHANGED <<playerMessages, calls>>
           ELSE IF ~channelCached
           THEN /\ playerMessages' = Forget(playerMessages, guildId)
                /\ call' = Controller("deletePlayer", guildId, "channelMissing", TRUE)
                /\ UNCHANGED calls
           ELSE /\ calls' = Suspend("event", "deleting",
                                    playerMessages[guildId].messageId)
                /\ call' = Controller("deletePlayer", guildId, "awaiting", FALSE)
                /\ UNCHANGED playerMessages
        /\ activePlayers' = activePlayers \ {guildId}
        /\ UNCHANGED <<searchRest, queueMessage, shutdown, live, nextMessageId>>

\* deletePlayer that clears the record only when the message was deleted
DeleteSettled_ClearsOnSuccess ==
    \E c \in EventCallers, guildId \in Guilds, outcome \in Outcomes,
       gone \in BOOLEAN :
        /\ calls[c].pc = "deleting"
        /\ gone => \E m \in live : m.messageId = calls[c].messageId
        /\ outcome = "done" => gone
        /\ gone => outcome \in {"done", "actTimeout"}
        /\ live' = IF gone THEN {m \in live : m.messageId # calls[c].messageId}
                   ELSE live
        /\ playerMessages' = IF outcome = "done" THEN Forget(playerMessages, guildId)
                             ELSE playerMessages
        /\ calls' = [calls EXCEPT ![c] = Idle]
        /\ call' = Controller("deletePlayer", guildId, outcome, TRUE)
        /\ UNCHANGED <<searchRest, queueMessage, shutdown, activePlayers, player, nextMessageId>>

\* deletePlayer after its awaits: the message is deleted (also when the delete
\* outlasts its timeout), or the fetch or the delete failed or timed out; the
\* guild's record is dropped in every case
DeleteSettled ==
    \E c \in EventCallers, guildId \in Guilds, outcome \in Outcomes,
       gone \in BOOLEAN :
        /\ calls[c].pc = "deleting"
        /\ gone => \E m \in live : m.messageId = calls[c].messageId
        /\ outcome = "done" => gone
        /\ gone => outcome \in {"done", "actTimeout"}
        /\ live' = IF gone THEN {m \in live : m.messageId # calls[c].messageId}
                   ELSE live
        /\ playerMessages' = Forget(playerMessages, guildId)
        /\ calls' = [calls EXCEPT ![c] = Idle]
        /\ call' = Controller("deletePlayer", guildId, outcome, TRUE)
        /\ UNCHANGED <<searchRest, queueMessage, shutdown, activePlayers, player, nextMessageId>>

\* a member deletes a now-playing message by hand
MessageDeleted ==
    \E m \in live :
        /\ live' = live \ {m}
        /\ call' = Quiet
        /\ UNCHANGED <<searchRest, queueMessage, shutdown, activePlayers, player, playerMessages, nextMessageId, calls>>

MsgNext ==
    \/ PlayCommand
    \/ RefreshController
    \/ SendPosted
    \/ SendResolved
    \/ SendFailed
    \/ UpdateSettled
    \/ DeletePlayerStart
    \/ DeleteSettled
    \/ MessageDeleted

MsgSpec == StoreInit /\ [][MsgNext]_vars

----------------------------------------------------------------------------
(* The lavalink events that end playback: trackEnd, queueEnd, playerDestroy *)

\* deletePlayer up to its first await, called by the handler c
deletePlayerStart(c, guildId, channelCached) ==
    IF guildId \notin DOMAIN playerMessages
    THEN /\ call' = Controller("deletePlayer", guildId, "nothingToDo", TRUE)
         /\ calls' = [calls EXCEPT ![c] = Idle]
         /\ UNCHANGED playerMessages
    ELSE IF ~channelCached
    THEN /\ playerMessages' = Forget(playerMessages, guildId)
         /\ call' = Controller("deletePlayer", guildId, "channelMissing", TRUE)
         /\ calls' = [calls EXCEPT ![c] = Idle]
    ELSE /\ calls' = Suspend(c, "deleting", playerMessages[guildId].messageId)
         /\ call' = Controller("deletePlayer", guildId, "awaiting", FALSE)
         /\ UNCHANGED playerMessages

\* the last track ends with nothing queued: the trackEnd handler sets its
\* timer of 500 ms, the queueEnd handler calls deletePlayer and takes the
\* guild out of activePlayers. One timer and one deletePlayer of these
\* handlers are under way at a time.
QueueEnd ==
    \E guildId \in Guilds, channelCached \in BOOLEAN :
        /\ player.exists
        /\ player.playing
        /\ player.queue = <<>>
        /\ calls["event"].pc = "idle"
        /\ calls["trackEnd"].pc = "idle"
        /\ player' = [player EXCEPT !.current = -1, !.playing = FALSE]
        /\ activePlayers' = activePlayers \ {guildId}
        /\ LET timed == [calls EXCEPT !["trackEnd"] = [pc |-> "timer", messageId |-> 0]]
           IN  IF guildId \notin DOMAIN playerMessages
               THEN /\ call' = Controller("deletePlayer", guildId, "nothingToDo", TRUE)
                    /\ calls' = timed
                    /\ UNCHANGED playerMessages
               ELSE IF ~channelCached
               THEN /\ playerMessages' = Forget(playerMessages, guildId)
                    /\ call' = Controller("deletePlayer", guildId, "channelMissing", TRUE)
                    /\ calls' = timed
               ELSE /\ calls' = [timed EXCEPT !["event"] =
                                    [pc |-> "deleting",
                                     messageId |-> playerMessages[guildId].messageId]]
                    /\ call' = Controller("deletePlayer", guildId, "awaiting", FALSE)
                    /\ UNCHANGED playerMessages
        /\ UNCHANGED <<searchRest, queueMessage, shutdown, live, nextMessageId>>

\* the timer of the trackEnd handler fires: with a current track the
\* controller is updated, without one it is deleted and the guild leaves
\* activePlayers
TrackEndTimer ==
    \E guildId \in Guilds, channelCached \in BOOLEAN :
        /\ calls["trackEnd"].pc = "timer"
        /\ IF player.exists /\ player.current # -1
           THEN /\ updatePlayerStart("trackEnd", guildId, channelCached)
                /\ UNCHANGED activePlayers
           ELSE /\ deletePlayerStart("trackEnd", guildId, channelCached)
                /\ activePlayers' = activePlayers \ {guildId}
        /\ UNCHANGED <<searchRest, queueMessage, shutdown, player, live, nextMessageId>>

EndNext ==
    \/ PlayCommand
    \/ RefreshController
    \/ SendPosted
    \/ SendResolved
    \/ SendFailed
    \/ UpdateSettled
    \/ DeletePlayerStart
    \/ DeleteSettled
    \/ QueueEnd
    \/ TrackEndTimer

EndSpec == StoreInit /\ [][EndNext]_vars

\* withTimeout settles every fetch, edit and delete, and the timer fires
EndLiveSpec ==
    /\ EndSpec
    /\ WF_vars(UpdateSettled)
    /\ WF_vars(DeleteSettled)
    /\ WF_vars(TrackEndTimer)

----------------------------------------------------------------------------
(* /play that fails: the catch block of play.execute *)

\* what the try block of /play may throw before a track is added: the
\* connect or the search rejects, or its timer wins the race
PlayFailures == {"connectFailed", "connectTimeout", "searchFailed", "searchTimeout"}

\* /play whose connect or search fails: createPlayer has returned the guild's
\* player, the one it had or a new one; the catch block gets the guild's
\* player and destroys it, and the playerDestroy handler takes the guild out
\* of activePlayers and calls deletePlayer
PlayFails ==
    \E guildId \in Guilds, channelCached \in BOOLEAN, failure \in PlayFailures :
        /\ calls["play"].pc = "idle"
        /\ calls["event"].pc = "idle"
        /\ player.exists \/ player.gen < MaxPlayers
        /\ player' = Destroyed(IF player.exists THEN player ELSE CreatePlayer(player))
        /\ activePlayers' = activePlayers \ {guildId}
        /\ IF guildId \notin DOMAIN playerMessages
           THEN UNCHANGED <<playerMessages, calls>>
           ELSE IF ~channelCached
           THEN /\ playerMessages' = Forget(playerMessages, guildId)
                /\ UNCHANGED calls
           ELSE /\ calls' = Suspend("event", "deleting",
                                    playerMessages[guildId].messageId)
                /\ UNCHANGED playerMessages
        /\ call' = Controller("play", guildId, failure, TRUE)
        /\ UNCHANGED <<searchRest, queueMessage, shutdown, live, nextMessageId>>

PlayNext ==
    \/ PlayCommand
    \/ PlayFails
    \/ RefreshController
    \/ SendPosted
    \/ SendResolved
    \/ SendFailed
    \/ UpdateSettled
    \/ DeleteSettled
    \/ MessageDeleted

PlaySpec == StoreInit /\ [][PlayNext]_vars

----------------------------------------------------------------------------
(* PlayerController.cleanupPlayerMessages: the registry of several guilds *)

MAX_PLAYER_MESSAGES == 1000

SmallCap == 1        \* a value of MAX_PLAYER_MESSAGES that the model's guilds exceed

RegistryGuilds == {"g1", "g2", "g3"}
Channels == {"c1", "c2"}

\* Array.from(playerMessages.keys())
Keys(M) ==
    [i \in 1..Cardinality(DOMAIN M) |-> CHOOSE g \in DOMAIN M : M[g].position = i]

\* playerMessages.delete(guildId) for each guildId of a list
RECURSIVE DeleteEach(_, _)
DeleteEach(M, keys) ==
    IF keys = <<>> THEN M ELSE DeleteEach(Forget(M, Head(keys)), Tail(keys))

\* cleanupPlayerMessages() with the guilds and channels the client's caches
\* hold and with the value of this.MAX_PLAYER_MESSAGES
cleanupPlayerMessages(M, guildsCache, channelsCache, max) ==
    LET Stale(guildId) == \/ guildId \notin guildsCache
                          \/ M[guildId].channelId \notin channelsCache
        stale == SelectSeq(Keys(M), Stale)
        known == DeleteEach(M, stale)
        size == Cardinality(DOMAIN known)
        excess == size - max
        oldestEntries == IF size > max THEN SubSeq(Keys(known), 1, excess) ELSE <<>>
    IN  [ playerMessages |-> DeleteEach(known, oldestEntries),
          cleanedCount |-> Len(stale) + Len(oldestEntries) ]

\* sendPlayer for a guild, from channel.send to playerMessages.set
RegistrySend ==
    \E guildId \in RegistryGuilds, channelId \in Channels :
        /\ playerMessages' = Remember(playerMessages, guildId, 0, channelId, now)
        /\ call' = Quiet
        /\ UNCHANGED <<searchRest, queueMessage, shutdown, activePlayers, player, live, nextMessageId, calls>>

\* deletePlayer for a guild, or the failure of an updatePlayer
RegistryDelete ==
    \E guildId \in DOMAIN playerMessages :
        /\ playerMessages' = Forget(playerMessages, guildId)
        /\ call' = Quiet
        /\ UNCHANGED <<searchRest, queueMessage, shutdown, activePlayers, player, live, nextMessageId, calls>>

\* the cleanup interval fires; the caches may have lost a guild or a channel
RegistryCleanup ==
    \E guildsCache \in {RegistryGuilds, RegistryGuilds \ {"g3"}},
       channelsCache \in {Channels, Channels \ {"c2"}},
       max \in {SmallCap, MAX_PLAYER_MESSAGES} :
        LET r == cleanupPlayerMessages(playerMessages, guildsCache, channelsCache, max)
        IN  /\ playerMessages' = r.playerMessages
            /\ call' = [op |-> "cleanupPlayerMessages", id |-> NoId, arg |-> max,
                        ret |-> TRUE, count |-> r.cleanedCount,
                        guilds |-> guildsCache, channels |-> channelsCache]
            /\ UNCHANGED <<searchRest, queueMessage, shutdown, activePlayers, player, live, nextMessageId, calls>>

RegistryNext ==
    \/ StoreTick
    \/ RegistrySend
    \/ RegistryDelete
    \/ RegistryCleanup

RegistrySpec == StoreInit /\ [][RegistryNext]_vars

----------------------------------------------------------------------------
(* The player's queue: jumpToTrack, paginatedQueue and the queue buttons *)

MaxQueued == 10      \* the tracks of one queue are numbered 0..MaxQueued

\* itemsPerPage where paginatedQueue is called without it
DefaultItemsPerPage == 10

\* itemsPerPage passed by the createPaginatedQueueResponse that lists the
\* queue with a select menu
MenuItemsPerPage == 9

PageSizes == {1, 2, MenuItemsPerPage, DefaultItemsPerPage}

\* jumpToTrack with the splice moved before the validation of the index
jumpToTrack_SpliceFirst(P, trackIndex) ==
    IF ~P.exists \/ Len(P.queue) = 0
    THEN [player |-> P, skipped |-> <<>>, ret |-> -1]
    ELSE LET spliced == [P EXCEPT !.queue = Slice(@, Max(trackIndex, 0), Len(@))]
         IN  IF trackIndex < 0 \/ trackIndex >= Len(P.queue)
             THEN [player |-> spliced, skipped |-> <<>>, ret |-> -1]
             ELSE [player |-> Play(spliced), skipped |-> <<spliced.queue>>,
                   ret |-> P.queue[trackIndex + 1]]

\* jumpToTrack that removes the target with the tracks before it
jumpToTrack_RemovesTarget(P, trackIndex) ==
    IF ~P.exists \/ Len(P.queue) = 0
    THEN [player |-> P, skipped |-> <<>>, ret |-> -1]
    ELSE IF trackIndex < 0 \/ trackIndex >= Len(P.queue)
    THEN [player |-> P, skipped |-> <<>>, ret |-> -1]
    ELSE LET targetTrack == P.queue[trackIndex + 1]
             spliced == [P EXCEPT !.queue = Slice(@, trackIndex + 1, Len(@))]
         IN  [player |-> Play(spliced), skipped |-> <<spliced.queue>>,
              ret |-> targetTrack]

\* jumpToTrack(player, trackIndex): `ret` is the track returned, -1 for null
\* (as player.current is -1 for no track); `skipped` lists player.queue.tracks
\* as it was at each call of player.skip(); `player` is the player once skip
\* has made the head of the queue the current track
jumpToTrack(P, trackIndex) ==
    IF ~P.exists \/ Len(P.queue) = 0
    THEN [player |-> P, skipped |-> <<>>, ret |-> -1]
    ELSE IF trackIndex < 0 \/ trackIndex >= Len(P.queue)
    THEN [player |-> P, skipped |-> <<>>, ret |-> -1]
    ELSE LET targetTrack == P.queue[trackIndex + 1]
             spliced == [P EXCEPT !.queue = Slice(@, trackIndex, Len(@))]
         IN  [player |-> Play(spliced), skipped |-> <<spliced.queue>>,
              ret |-> targetTrack]

\* paginatedQueue whose pages stop one track early
paginatedQueue_ShortPage(P, page, itemsPerPage) ==
    LET tracks == P.queue
    IN  IF Len(tracks) = 0
        THEN [ tracks |-> <<>>, currentPage |-> 1, totalPages |-> 1,
               totalTracks |-> 0, hasNext |-> FALSE, hasPrevious |-> FALSE,
               startIndex |-> 0, endIndex |-> 0 ]
        ELSE LET totalTracks == Len(tracks)
                 totalPages == Ceil(totalTracks, itemsPerPage)
                 currentPage == Max(1, Min(page, totalPages))
                 startIndex == (currentPage - 1) * itemsPerPage
                 endIndex == Min(startIndex + itemsPerPage, totalTracks) - 1
             IN  [ tracks      |-> Slice(tracks, startIndex, endIndex),
                   currentPage |-> currentPage,
                   totalPages  |-> totalPages,
                   totalTracks |-> totalTracks,
                   hasNext     |-> currentPage < totalPages,
                   hasPrevious |-> currentPage > 1,
                   startIndex  |-> startIndex,
                   endIndex    |-> endIndex ]

\* paginatedQueue without its branch for the empty queue
paginatedQueue_NoEmptyCase(P, page, itemsPerPage) ==
    LET tracks == P.queue
        totalTracks == Len(tracks)
        totalPages == Ceil(totalTracks, itemsPerPage)
        currentPage == Max(1, Min(page, totalPages))
        startIndex == (currentPage - 1) * itemsPerPage
        endIndex == Min(startIndex + itemsPerPage, totalTracks)
    IN  [ tracks      |-> Slice(tracks, startIndex, endIndex),
          currentPage |-> currentPage,
          totalPages  |-> totalPages,
          totalTracks |-> totalTracks,
          hasNext     |-> currentPage < totalPages,
          hasPrevious |-> currentPage > 1,
          startIndex  |-> startIndex,
          endIndex    |-> endIndex ]

\* paginatedQueue(player, page, itemsPerPage) of the file with the select menu
paginatedQueue(P, page, itemsPerPage) ==
    LET tracks == P.queue
    IN  IF Len(tracks) = 0
        THEN [ tracks |-> <<>>, currentPage |-> 1, totalPages |-> 1,
               totalTracks |-> 0, hasNext |-> FALSE, hasPrevious |-> FALSE,
               startIndex |-> 0, endIndex |-> 0 ]
        ELSE LET totalTracks == Len(tracks)
                 totalPages == Ceil(totalTracks, itemsPerPage)
                 currentPage == Max(1, Min(page, totalPages))
                 startIndex == (currentPage - 1) * itemsPerPage
                 endIndex == Min(startIndex + itemsPerPage, totalTracks)
             IN  [ tracks      |-> Slice(tracks, startIndex, endIndex),
                   currentPage |-> currentPage,
                   totalPages  |-> totalPages,
                   totalTracks |-> totalTracks,
                   hasNext     |-> currentPage < totalPages,
                   hasPrevious |-> currentPage > 1,
                   startIndex  |-> startIndex,
                   endIndex    |-> endIndex ]

\* paginatedQueue(player, page, itemsPerPage) of utils/PlayerActions.js: the
\* page is a text with one numbered line <<number, track>> for each track,
\* and startIndex counts from one
PlayerActions_paginatedQueue(P, page, itemsPerPage) ==
    IF Len(P.queue) = 0
    THEN [ content |-> <<>>, currentPage |-> 1, totalPages |-> 1,
           totalTracks |-> 0, hasNext |-> FALSE, hasPrevious |-> FALSE ]
    ELSE LET totalTracks == Len(P.queue)
             totalPages == Ceil(totalTracks, itemsPerPage)
             currentPage == Max(1, Min(page, totalPages))
             startIndex == (currentPage - 1) * itemsPerPage
             endIndex == Min(startIndex + itemsPerPage, totalTracks)
             tracks == Slice(P.queue, startIndex, endIndex)
             list == [i \in 1..Len(tracks) |-> <<startIndex + i, tracks[i]>>]
         IN  [ content     |-> list,
               currentPage |-> currentPage,
               totalPages  |-> totalPages,
               totalTracks |-> totalTracks,
               hasNext     |-> currentPage < totalPages,
               hasPrevious |-> currentPage > 1,
               startIndex  |-> startIndex + 1,
               endIndex    |-> endIndex ]

\* createPaginatedQueueResponse(client, player, page) of utils/PlayerActions.js:
\* `listed` are the numbered lines of the embed, `prev` and `next` the buttons
\* queue:prev:<page> and queue:next:<page> of the navigation row, `jumps` the
\* track indices of the queue:jump buttons in the order of the rows
createPaginatedQueueResponse(P, page) ==
    LET queueData == PlayerActions_paginatedQueue(P, page, DefaultItemsPerPage)
    IN  IF queueData.content = <<>>
        THEN NoView
        ELSE LET tracksOnPage == queueData.endIndex - queueData.startIndex
                 maxSelectionButtons == Min(tracksOnPage, 20)
                 nav == queueData.totalPages > 1
             IN  [ empty       |-> FALSE,
                   currentPage |-> queueData.currentPage,
                   totalPages  |-> queueData.totalPages,
                   listed      |-> queueData.content,
                   nav         |-> nav,
                   prev        |-> IF nav
                                   THEN [page |-> page - 1,
                                         disabled |-> ~queueData.hasPrevious]
                                   ELSE NoView.prev,
                   next        |-> IF nav
                                   THEN [page |-> page + 1,
                                         disabled |-> ~queueData.hasNext]
                                   ELSE NoView.next,
                   jumps       |-> [j \in 1..maxSelectionButtons |->
                                       queueData.startIndex - 1 + (j - 1)] ]

\* the answer of the queue handler: `shouldUpdate` tells that it went out
\* with interaction.update, which redraws the queue message, and not with an
\* ephemeral interaction.reply; `responseMessage` that a follow-up came after
QueueReply(text, userId, updates, followUp) ==
    [NoReply EXCEPT !.text = text, !.userId = userId,
                    !.shouldUpdate = updates, !.responseMessage = followUp]

\* what one run of the queue handler does
QueueOutcome(P, answer, record) == [player |-> P, reply |-> answer, call |-> record]

\* args[k - 1] of the handler: undefined, for which parseInt gives NaN, is <<>>
Arg(args, k) == IF k <= Len(args) THEN args[k] ELSE <<>>

\* handleQueueInteraction(interaction, action, args); sameVoice tells whether
\* the member is in the voice channel of the player
handleQueueInteraction(action, args, userId, P, sameVoice) ==
    IF ~P.exists
    THEN QueueOutcome(P, QueueReply("NOTHING_PLAYING", userId, FALSE, FALSE), Quiet)
    ELSE IF action = "jump" /\ ~sameVoice
    THEN QueueOutcome(P, QueueReply("NOT_IN_VOICE", userId, FALSE, FALSE), Quiet)
    ELSE IF action = "prev" \/ action = "next"
    THEN LET targetPage == parseInt(Arg(args, 1))
         IN  IF targetPage.nan
             THEN QueueOutcome(P, NoReply, Quiet)
             ELSE IF Len(P.queue) = 0
             THEN QueueOutcome(P, QueueReply("QUEUE_EMPTY", userId, TRUE, FALSE), Quiet)
             ELSE QueueOutcome(P, QueueReply("queue", userId, TRUE, FALSE),
                      [op |-> "createPaginatedQueueResponse", id |-> NoId,
                       arg |-> targetPage.n, ret |-> TRUE, count |-> 0,
                       data |-> PlayerActions_paginatedQueue(P, targetPage.n,
                                                             DefaultItemsPerPage),
                       view |-> createPaginatedQueueResponse(P, targetPage.n)])
    ELSE IF action = "jump"
    THEN LET trackIndex == parseInt(Arg(args, 1))
             currentPage == parseInt(Arg(args, 2))
         IN  IF trackIndex.nan \/ currentPage.nan
             THEN QueueOutcome(P, NoReply, Quiet)
             ELSE IF Len(P.queue) = 0
             THEN QueueOutcome(P, QueueReply("QUEUE_EMPTY", userId, TRUE, FALSE),
                      [op |-> "jump", id |-> NoId, arg |-> trackIndex.n,
                       ret |-> FALSE, count |-> 0, track |-> -1, skipped |-> <<>>])
             ELSE LET r == jumpToTrack(P, trackIndex.n)
                      record == [op |-> "jump", id |-> NoId, arg |-> trackIndex.n,
                                 ret |-> TRUE, count |-> Len(r.skipped),
                                 track |-> r.ret, skipped |-> r.skipped]
                  IN  IF r.ret = -1
                      THEN QueueOutcome(r.player,
                               QueueReply("QUEUE_JUMP_INVALID", userId, FALSE, FALSE),
                               record)
                      ELSE QueueOutcome(r.player,
                               QueueReply("queue", userId, TRUE, TRUE), record)
    ELSE QueueOutcome(P, NoReply, Quiet)

\* the number of the next track put into the queue: one above those in it
RECURSIVE MaxOf(_)
MaxOf(seq) == IF seq = <<>> THEN -1 ELSE Max(Head(seq), MaxOf(Tail(seq)))

FreshTrack(P) == Max(P.current, MaxOf(P.queue)) + 1

\* /play: the guild's player, made if there is none, gets one more track and
\* plays if it was not playing
QueueAdd ==
    /\ player.exists \/ player.gen < MaxPlayers
    /\ FreshTrack(player) <= MaxQueued
    /\ LET p == IF player.exists THEN player ELSE CreatePlayer(player)
           added == [p EXCEPT !.queue = Append(@, FreshTrack(player))]
       IN  player' = IF added.playing THEN added ELSE Play(added)
    /\ call' = Quiet
    /\ reply' = NoReply
    /\ UNCHANGED <<now, sessions, returnedIds, nextSweep, immediates,
                   searching, msgVars>>

\* the texts a queue button may carry as track index
JumpArgs(P) ==
    {<<"-", "1">>, <<"x">>} \cup {<<ToString(i)>> : i \in {0, 2, Len(P.queue)}}

\* a `queue:jump:<trackIndex>:<page>` button is pressed
QueueJumpInteraction ==
    \E userId \in Users, trackIndex \in JumpArgs(player), sameVoice \in BOOLEAN :
        LET o == handleQueueInteraction("jump", <<trackIndex, <<"1">>>>, userId,
                                        player, sameVoice)
        IN  /\ player' = o.player
            /\ reply' = o.reply
            /\ call' = o.call
            /\ UNCHANGED <<now, sessions, returnedIds, nextSweep, immediates,
                           searching, msgVars>>

\* a `queue:prev:<page>` or `queue:next:<page>` button is pressed
QueuePageInteraction ==
    \E userId \in Users, action \in {"prev", "next"},
       page \in {<<"0">>, <<"1">>, <<"2">>, <<"x">>} :
        LET o == handleQueueInteraction(action, <<page>>, userId, player, TRUE)
        IN  /\ player' = o.player
            /\ reply' = o.reply
            /\ call' = o.call
            /\ UNCHANGED <<now, sessions, returnedIds, nextSweep, immediates,
                           searching, msgVars>>

\* paginatedQueue is applied to the player's queue, in either version
CallPaginatedQueue ==
    /\ player.exists
    /\ \E page \in PageRequests \cup {1}, itemsPerPage \in PageSizes :
           \/ call' = [op |-> "paginatedQueue", id |-> NoId, arg |-> page,
                       ret |-> TRUE, count |-> itemsPerPage,
                       data |-> paginatedQueue(player, page, itemsPerPage)]
           \/ call' = [op |-> "PlayerActions.paginatedQueue", id |-> NoId,
                       arg |-> page, ret |-> TRUE, count |-> itemsPerPage,
                       data |-> PlayerActions_paginatedQueue(player, page,
                                                             itemsPerPage)]
    /\ reply' = NoReply
    /\ UNCHANGED <<now, sessions, returnedIds, nextSweep, player, immediates,
                   searching, msgVars>>

QueueNext ==
    \/ QueueAdd
    \/ TrackEnd
    \/ QueueJumpInteraction
    \/ QueuePageInteraction
    \/ CallPaginatedQueue

QueueSpec == StoreInit /\ [][QueueNext]_vars

----------------------------------------------------------------------------
(* The queue view and its buttons: createPaginatedQueueResponse *)

PlaylistLength == 22   \* tracks of the playlist that /play adds

\* /play of a playlist: player.queue.add(res.tracks), and the player plays if
\* it was not playing
PlaylistAdd ==
    /\ player.exists \/ player.gen < MaxPlayers
    /\ ~player.exists \/ (player.queue = <<>> /\ player.current = -1)
    /\ LET p == IF player.exists THEN player ELSE CreatePlayer(player)
           added == [p EXCEPT !.queue = [i \in 1..PlaylistLength |-> i - 1]]
       IN  player' = IF added.playing THEN added ELSE Play(added)
    /\ call' = Quiet
    /\ reply' = NoReply
    /\ UNCHANGED <<now, sessions, returnedIds, nextSweep, immediates,
                   searching, msgVars>>

\* /queue or the queue button of the now-playing message: the first page
ShowQueue ==
    \E userId \in Users :
        /\ player.exists
        /\ queueMessage' = createPaginatedQueueResponse(player, 1)
        /\ reply' = QueueReply(IF queueMessage'.empty THEN "QUEUE_EMPTY" ELSE "queue",
                               userId, FALSE, FALSE)
        /\ call' = [op |-> "createPaginatedQueueResponse", id |-> NoId, arg |-> 1,
                    ret |-> TRUE, count |-> 0, button |-> "queue"]
        /\ UNCHANGED <<now, sessions, returnedIds, nextSweep, player, immediates,
                       searching, playerMessages, live, nextMessageId, calls,
                       activePlayers, shutdown>>

\* the member presses a button of the navigation row of the queue view shown,
\* one that is not disabled: handleQueueInteraction gets the page the button
\* carries, and interaction.update replaces the view
PressPage ==
    \E userId \in Users, button \in {"prev", "next"} :
        /\ ~queueMessage.empty
        /\ queueMessage.nav
        /\ ~queueMessage[button].disabled
        /\ LET o == handleQueueInteraction(button,
                                           <<(<<ToString(queueMessage[button].page)>>)>>,
                                           userId, player, TRUE)
           IN  /\ player' = o.player
               /\ reply' = o.reply
               /\ queueMessage' = IF o.reply.text = "queue" THEN o.call.view
                                   ELSE IF o.reply.text = "QUEUE_EMPTY" THEN NoView
                                   ELSE queueMessage
               /\ call' = [op |-> "createPaginatedQueueResponse", id |-> NoId,
                           arg |-> queueMessage[button].page,
                           ret |-> o.reply.text = "queue", count |-> 0,
                           button |-> button]
        /\ UNCHANGED <<now, sessions, returnedIds, nextSweep, immediates,
                       searching, playerMessages, live, nextMessageId, calls,
                       activePlayers, shutdown>>

ViewNext ==
    \/ PlaylistAdd
    \/ TrackEnd
    \/ ShowQueue
    \/ PressPage

ViewSpec == StoreInit /\ [][ViewNext]_vars

----------------------------------------------------------------------------
(* The player controls: the buttons of the now-playing message, the slash    *)
(* commands and the entry point of the interactions                          *)

MaxControlTracks == 2    \* the tracks a player is given are numbered 0..MaxControlTracks
MaxEntryTracks == 1      \* the same, in the runs in which a step may fail

\* the actions of handlePlayerInteraction, and the commands of src/commands
\* that act on the player
PlayerButtons == {"back", "playpause", "skip", "stop", "shuffle", "queue",
                  "clear", "loop"}
PlayerCommands == {"back", "pause", "stop", "shuffle", "clear"}

\* the step of an interaction that throws or rejects: the permission check,
\* the awaited call on the player, or the reply
FailingSteps == {"none", "permission", "player", "reply"}

\* the switch of the loop button that only turns looping on and off
LoopMode_OnOff(repeatMode) ==
    IF repeatMode = "off" \/ repeatMode = "unset" THEN "track" ELSE "off"

\* the switch of the loop button on `player.repeatMode || 'off'`
LoopMode(repeatMode) ==
    LET mode == IF repeatMode = "unset" THEN "off" ELSE repeatMode
    IN  IF mode = "off" THEN "track"
        ELSE IF mode = "track" THEN "queue"
        ELSE IF mode = "queue" THEN "off"
        ELSE "track"

\* playPrevious(player): `ret` is the track returned, -1 for null. The spread
\* of the track's client data comes after previousTrack: true, so a
\* previousTrack the data already has is the one that stays.
playPrevious(P) ==
    IF P.previous = <<>>
    THEN [player |-> P, ret |-> -1]
    ELSE LET previousTrack == Head(P.previous)
             shifted == [P EXCEPT !.previous = Tail(@)]
             readded == IF P.current # -1
                        THEN [shifted EXCEPT !.queue = <<P.current>> \o @]
                        ELSE shifted
             marked == IF previousTrack \in P.untagged THEN readded
                       ELSE [readded EXCEPT !.tagged = @ \cup {previousTrack}]
         IN  [player |-> [marked EXCEPT !.current = previousTrack,
                                        !.playing = TRUE],
              ret |-> previousTrack]

\* the current track leaves for the next of the queue: it joins the history
\* unless it is tagged as a resurrected one
Advance(P) ==
    LET kept == IF P.current = -1 \/ P.current \in P.tagged THEN P
                ELSE [P EXCEPT !.previous = <<P.current>> \o @]
    IN  IF kept.queue = <<>>
        THEN [kept EXCEPT !.current = -1, !.playing = FALSE]
        ELSE [kept EXCEPT !.current = Head(kept.queue), !.queue = Tail(kept.queue),
                          !.playing = TRUE]

\* the orders player.queue.shuffle() may leave the queue in
Count(seq, x) == Cardinality({i \in 1..Len(seq) : seq[i] = x})
Shuffles(queue) ==
    {p \in [1..Len(queue) -> Range(queue)] :
        \A x \in Range(queue) : Count(p, x) = Count(queue, x)}

\* what a handler or command did: the player it leaves, its last reply, and
\* whether it threw
Handled(P, text, userId, threw) ==
    [player |-> P, reply |-> Reply(text, userId, NoId), threw |-> threw]

\* a handler step that calls the player and then replies: the call may
\* reject, leaving the player as it was, and the reply may reject afterwards
Acted(P, after, text, userId, fails) ==
    IF fails = "player" THEN Handled(P, "none", userId, TRUE)
    ELSE IF fails = "reply" THEN Handled(after, "none", userId, TRUE)
    ELSE Handled(after, text, userId, FALSE)

\* a handler step that only replies
Answered(P, text, userId, fails) ==
    IF fails = "reply" THEN Handled(P, "none", userId, TRUE)
    ELSE Handled(P, text, userId, FALSE)

\* handlePlayerInteraction(interaction, action): sameVoice tells whether the
\* member is in the player's voice channel, shuffled is the order a shuffle
\* would give
handlePlayerInteraction(action, userId, P, sameVoice, fails, shuffled) ==
    IF ~P.exists THEN Handled(P, "NOTHING_PLAYING", userId, FALSE)
    ELSE IF ~sameVoice THEN Handled(P, "NOT_IN_VOICE", userId, FALSE)
    ELSE IF action = "back"
    THEN LET r == playPrevious(P)
         IN  Acted(P, r.player,
                   IF r.ret # -1 THEN "PLAYING_PREVIOUS" ELSE "NO_PREVIOUS_SONG",
                   userId, fails)
    ELSE IF action = "playpause"
    THEN Acted(P, [P EXCEPT !.paused = ~@],
               IF P.paused THEN "RESUMED" ELSE "PAUSED", userId, fails)
    ELSE IF action = "skip"
    THEN IF P.queue = <<>> /\ P.repeatMode = "off"
         THEN Answered(P, "QUEUE_EMPTY", userId, fails)
         ELSE IF P.queue = <<>>
         THEN Acted(P, P, "SONG_SKIPPED", userId, fails)
         ELSE Acted(P, Advance(P), "SONG_SKIPPED", userId, fails)
    ELSE IF action = "stop"
    THEN Acted(P, Destroyed(P), "STOPPED_PLAYBACK", userId, fails)
    ELSE IF action = "shuffle"
    THEN IF P.queue # <<>>
         THEN Answered([P EXCEPT !.queue = shuffled], "QUEUE_SHUFFLED", userId, fails)
         ELSE Answered(P, "QUEUE_EMPTY", userId, fails)
    ELSE IF action = "queue"
    THEN Answered(P, "queue", userId, fails)
    ELSE IF action = "clear"
    THEN IF P.queue # <<>>
         THEN Answered([P EXCEPT !.queue = <<>>], "QUEUE_CLEARED", userId, fails)
         ELSE Answered(P, "QUEUE_EMPTY", userId, fails)
    ELSE IF action = "loop"
    THEN Answered([P EXCEPT !.repeatMode = LoopMode(@)],
                  "LOOP_" \o LoopMode(P.repeatMode), userId, fails)
    ELSE Handled(P, "none", userId, FALSE)

\* the execute of a slash command of src/commands: requirePlayer, with
\* requireQueue for /shuffle and /clear, then the action. No command looks at
\* the member's voice channel.
command(name, userId, P, fails, shuffled) ==
    IF ~P.exists THEN Handled(P, "NOTHING_PLAYING", userId, FALSE)
    ELSE IF name \in {"shuffle", "clear"} /\ P.queue = <<>>
    THEN Handled(P, "QUEUE_EMPTY", userId, FALSE)
    ELSE IF name = "back"
    THEN LET r == playPrevious(P)
         IN  Acted(P, r.player,
                   IF r.ret # -1 THEN "PLAYING_PREVIOUS" ELSE "NO_PREVIOUS_SONG",
                   userId, fails)
    ELSE IF name = "pause"
    THEN Acted(P, [P EXCEPT !.paused = ~@],
               IF P.paused THEN "RESUMED" ELSE "PAUSED", userId, fails)
    ELSE IF name = "stop"
    THEN Acted(P, Destroyed(P), "STOPPED_PLAYBACK", userId, fails)
    ELSE IF name = "shuffle"
    THEN Answered([P EXCEPT !.queue = shuffled], "QUEUE_SHUFFLED", userId, fails)
    ELSE IF name = "clear"
    THEN Answered([P EXCEPT !.queue = <<>>], "QUEUE_CLEARED", userId, fails)
    ELSE Handled(P, "none", userId, FALSE)

\* the record of one run of execute(interaction): `ret` tells that the
\* promise of execute rejected, errorReply that the catch block tried to send
\* the error message, reached that the handler got past its checks of the
\* player and the voice channel, track what playPrevious returned
Executed(kind, action, sameVoice, fails, rejected, errorReply, reached, track) ==
    [op |-> "execute", id |-> NoId, arg |-> 0, ret |-> rejected, count |-> 0,
     kind |-> kind, action |-> action, sameVoice |-> sameVoice, fails |-> fails,
     errorReply |-> errorReply, reached |-> reached, track |-> track]

\* execute(interaction) of the interactionCreate event for a button of the
\* player message or a slash command: the command path checks the permission
\* before its try block, the button path inside it
execute(kind, action, userId, P, permitted, sameVoice, fails, shuffled) ==
    LET error == IF kind = "button" THEN "BUTTON_ERROR" ELSE "ERROR_COMMAND_EXECUTION"
        h == IF kind = "button"
             THEN handlePlayerInteraction(action, userId, P, sameVoice, fails, shuffled)
             ELSE command(action, userId, P, fails, shuffled)
        reached == /\ P.exists
                   /\ kind = "button" => sameVoice
                   /\ kind = "command" /\ action \in {"shuffle", "clear"}
                          => P.queue # <<>>
        track == IF reached /\ action = "back" THEN playPrevious(P).ret ELSE -1
    IN  IF fails = "permission"
        THEN IF kind = "button"
             THEN [player |-> P, reply |-> Reply(error, userId, NoId),
                   call |-> Executed(kind, action, sameVoice, fails, FALSE, TRUE,
                                     FALSE, -1)]
             ELSE [player |-> P, reply |-> NoReply,
                   call |-> Executed(kind, action, sameVoice, fails, TRUE, FALSE,
                                     FALSE, -1)]
        ELSE IF ~permitted
        THEN [player |-> P, reply |-> Reply("NO_PERMISSION", userId, NoId),
              call |-> Executed(kind, action, sameVoice, fails, FALSE, FALSE,
                                FALSE, -1)]
        ELSE IF h.threw
        THEN [player |-> h.player, reply |-> Reply(error, userId, NoId),
              call |-> Executed(kind, action, sameVoice, fails, FALSE, TRUE,
                                reached, track)]
        ELSE [player |-> h.player, reply |-> h.reply,
              call |-> Executed(kind, action, sameVoice, fails, FALSE, FALSE,
                                reached, track)]

\* the number of the next track given to the player
ControlFresh(P) ==
    Max(Max(P.current, MaxOf(P.queue)), MaxOf(P.previous)) + 1

\* /play: the guild's player, made if there is none, gets one more track and
\* plays if it was not playing; the track may come with client data in which
\* previousTrack is false
AddTrack(P, unmarked) ==
    LET p == IF P.exists THEN P ELSE CreatePlayer(P)
        track == ControlFresh(P)
        added == [p EXCEPT !.queue = Append(@, track),
                           !.untagged = IF unmarked THEN @ \cup {track} ELSE @]
    IN  IF added.playing THEN added ELSE Play(added)

ControlAdd ==
    \E unmarked \in BOOLEAN :
        /\ player.exists \/ player.gen < MaxPlayers
        /\ ControlFresh(player) <= MaxControlTracks
        /\ player' = AddTrack(player, unmarked)
        /\ call' = Quiet
        /\ reply' = NoReply
        /\ UNCHANGED <<now, sessions, returnedIds, nextSweep, immediates,
                       searching, msgVars>>

\* the current track ends
ControlTrackEnd ==
    /\ player.exists
    /\ player.playing
    /\ player' = Advance(player)
    /\ call' = Quiet
    /\ reply' = NoReply
    /\ UNCHANGED <<now, sessions, returnedIds, nextSweep, immediates,
                   searching, msgVars>>

\* what an interaction does to the program
Interact(o) ==
    /\ player' = o.player
    /\ reply' = o.reply
    /\ call' = o.call
    /\ UNCHANGED <<now, sessions, returnedIds, nextSweep, immediates,
                   searching, msgVars>>

\* a button of the now-playing message is pressed by a member with the
\* permission, in the player's voice channel or not, and nothing fails
ControlButton ==
    \E action \in PlayerButtons, sameVoice \in BOOLEAN,
       shuffled \in Shuffles(player.queue) :
        Interact(execute("button", action, "u1", player, TRUE, sameVoice,
                         "none", shuffled))

\* a slash command that acts on the player is used likewise
ControlCommand ==
    \E name \in PlayerCommands, sameVoice \in BOOLEAN,
       shuffled \in Shuffles(player.queue) :
        Interact(execute("command", name, "u1", player, TRUE, sameVoice,
                         "none", shuffled))

ControlNext ==
    \/ ControlAdd
    \/ ControlTrackEnd
    \/ ControlButton
    \/ ControlCommand

ControlSpec == StoreInit /\ [][ControlNext]_vars

\* a button is pressed by a member in the voice channel, with or without the
\* permission, and a step of the handling may fail
EntryButton ==
    \E action \in PlayerButtons, permitted \in BOOLEAN, fails \in FailingSteps,
       shuffled \in Shuffles(player.queue) :
        Interact(execute("button", action, "u1", player, permitted, TRUE,
                         fails, shuffled))

\* a slash command is used likewise
EntryCommand ==
    \E name \in PlayerCommands, permitted \in BOOLEAN, fails \in FailingSteps,
       shuffled \in Shuffles(player.queue) :
        Interact(execute("command", name, "u1", player, permitted, TRUE,
                         fails, shuffled))

\* /play, for the runs in which a step may fail
EntryAdd ==
    /\ player.exists \/ player.gen < MaxPlayers
    /\ ControlFresh(player) <= MaxEntryTracks
    /\ player' = AddTrack(player, FALSE)
    /\ call' = Quiet
    /\ reply' = NoReply
    /\ UNCHANGED <<now, sessions, returnedIds, nextSweep, immediates,
                   searching, msgVars>>

EntryNext ==
    \/ EntryAdd
    \/ EntryButton
    \/ EntryCommand

EntrySpec == StoreInit /\ [][EntryNext]_vars

----------------------------------------------------------------------------
(* ShutdownManager: cleanup tasks, initiateShutdown and the signal handlers *)

MaxTasks == 3        \* cleanup tasks registered in one run

\* what a cleanup task does when it is called: its promise resolves or
\* rejects later, it throws before returning one, or it never settles
TaskKinds == {"resolves", "rejects", "throws", "hangs"}

\* the events setupSignalHandlers listens to
Signals == {"SIGINT", "SIGTERM", "UNCAUGHT_EXCEPTION", "UNHANDLED_REJECTION"}

ShutdownCall(op, signal, ignored) ==
    [op |-> op, id |-> NoId, arg |-> 0, ret |-> ignored, count |-> 0,
     signal |-> signal]

\* registerCleanupTask(task, name)
registerCleanupTask(D, task) ==
    [D EXCEPT !.cleanupTasks = Append(@, task),
              !.started = Append(@, 0),
              !.settled = Append(@, FALSE)]

\* executeCleanupTasks up to its await: the map calls every task in turn
\* inside a try block, so a task that throws is logged and the map goes on
executeCleanupTasks(D) ==
    [D EXCEPT !.executing = Len(D.cleanupTasks),
              !.started = [i \in 1..Len(D.cleanupTasks) |-> D.started[i] + 1],
              !.settled = [i \in 1..Len(D.cleanupTasks) |->
                              D.cleanupTasks[i] = "throws"]]

\* initiateShutdown without the test of isShuttingDown
initiateShutdown_NoGuard(D) ==
    executeCleanupTasks([D EXCEPT !.isShuttingDown = TRUE,
                                  !.forceExitTimer = TRUE,
                                  !.pc = "awaiting"])

\* initiateShutdown(signal) up to `await this.executeCleanupTasks()`
initiateShutdown(D) ==
    IF D.isShuttingDown THEN D
    ELSE executeCleanupTasks([D EXCEPT !.isShuttingDown = TRUE,
                                       !.forceExitTimer = TRUE,
                                       !.pc = "awaiting"])

ShutdownRest == <<now, sessions, returnedIds, nextSweep, player, immediates,
                  searching, reply, playerMessages, live, nextMessageId, calls,
                  activePlayers, queueMessage>>

\* a module registers a cleanup task
RegisterCleanupTask ==
    \E task \in TaskKinds :
        /\ shutdown.exitCode = -1
        /\ Len(shutdown.cleanupTasks) < MaxTasks
        /\ shutdown' = registerCleanupTask(shutdown, task)
        /\ call' = ShutdownCall("registerCleanupTask", "none", FALSE)
        /\ UNCHANGED ShutdownRest

\* a signal, an uncaught exception or an unhandled rejection reaches its
\* handler, which calls initiateShutdown
InitiateShutdown ==
    \E signal \in Signals :
        /\ shutdown.exitCode = -1
        /\ shutdown' = initiateShutdown(shutdown)
        /\ call' = ShutdownCall("initiateShutdown", signal, shutdown.isShuttingDown)
        /\ UNCHANGED ShutdownRest

\* the promise of a cleanup task settles
TaskSettles ==
    \E i \in 1..Len(shutdown.cleanupTasks) :
        /\ shutdown.exitCode = -1
        /\ shutdown.started[i] > 0
        /\ ~shutdown.settled[i]
        /\ shutdown.cleanupTasks[i] \in {"resolves", "rejects"}
        /\ shutdown' = [shutdown EXCEPT !.settled[i] = TRUE]
        /\ call' = ShutdownCall("task", "none", FALSE)
        /\ UNCHANGED ShutdownRest

\* Promise.allSettled resolves: initiateShutdown clears the force-exit timer
\* and sets the timer of process.exit(0)
CleanupDone ==
    /\ shutdown.exitCode = -1
    /\ shutdown.pc = "awaiting"
    /\ \A i \in 1..shutdown.executing : shutdown.settled[i]
    /\ shutdown' = [shutdown EXCEPT !.forceExitTimer = FALSE, !.pc = "exiting"]
    /\ call' = ShutdownCall("executeCleanupTasks", "none", FALSE)
    /\ UNCHANGED ShutdownRest

\* the force-exit timer fires after GRACEFUL_TIMEOUT_MS: process.exit(1)
ForceExit ==
    /\ shutdown.exitCode = -1
    /\ shutdown.forceExitTimer
    /\ shutdown' = [shutdown EXCEPT !.exitCode = 1, !.pc = "exited"]
    /\ call' = ShutdownCall("process.exit", "none", FALSE)
    /\ UNCHANGED ShutdownRest

\* the timer set after the cleanup fires: process.exit(0)
DelayedExit ==
    /\ shutdown.exitCode = -1
    /\ shutdown.pc = "exiting"
    /\ shutdown' = [shutdown EXCEPT !.exitCode = 0, !.pc = "exited"]
    /\ call' = ShutdownCall("process.exit", "none", FALSE)
    /\ UNCHANGED ShutdownRest

ShutdownNext ==
    \/ RegisterCleanupTask
    \/ InitiateShutdown
    \/ TaskSettles
    \/ CleanupDone
    \/ ForceExit
    \/ DelayedExit

ShutdownSpec == StoreInit /\ [][ShutdownNext]_vars

----------------------------------------------------------------------------
(* generateSecureSessionId: the session id drawn at random, with retries *)

MAX_COLLISION_RETRIES == 3

\* the ids `${userId}_${timestamp}_${randomHex}` may come out as
CandidateIds == {<<"u1", "_", "0", "_", "r1">>, <<"u1", "_", "0", "_", "r2">>,
                 <<"u1", "_", "0", "_", "r3">>}

\* the ids one call draws, one for each attempt it may make
Draws == [1..MAX_COLLISION_RETRIES -> CandidateIds]

\* the loop from attempt on: `ret` is the id returned, threw tells that the
\* Error after the loop was thrown, attempts counts the ids drawn
RECURSIVE Attempts(_, _, _)
Attempts(existingIds, draws, attempt) ==
    IF attempt >= MAX_COLLISION_RETRIES
    THEN [ret |-> NoId, threw |-> TRUE, attempts |-> attempt]
    ELSE LET sessionId == draws[attempt + 1]
         IN  IF sessionId \notin existingIds
             THEN [ret |-> sessionId, threw |-> FALSE, attempts |-> attempt + 1]
             ELSE Attempts(existingIds, draws, attempt + 1)

\* the function, had it fallen back on the last id drawn once the retries
\* are used up
generateSecureSessionId_FallsBack(existingIds, draws) ==
    LET r == Attempts(existingIds, draws, 0)
    IN  IF r.threw
        THEN [ret |-> draws[MAX_COLLISION_RETRIES], threw |-> FALSE,
              attempts |-> r.attempts]
        ELSE r

\* generateSecureSessionId(existingIds, userId), on the ids crypto.randomBytes
\* gives it
generateSecureSessionId(existingIds, draws) == Attempts(existingIds, draws, 0)

CallGenerateSecureSessionId ==
    \E existingIds \in SUBSET CandidateIds, draws \in Draws :
        LET r == generateSecureSessionId(existingIds, draws)
        IN  /\ call' = [op |-> "generateSecureSessionId", id |-> r.ret, arg |-> 0,
                        ret |-> r.threw, count |-> r.attempts,
                        existingIds |-> existingIds, draws |-> draws]
            /\ UNCHANGED <<searchRest, player, msgVars>>

IdNext == CallGenerateSecureSessionId

IdSpec == StoreInit /\ [][IdNext]_vars

----------------------------------------------------------------------------
(* validateCustomId and parseSearchCustomId *)

MAX_CUSTOM_ID_LENGTH == 100
MAX_SESSION_ID_LENGTH == 64

\* a word of 65 characters
LongWord == "aaaaaaaaaaaaaaaaaaaaaaaaaaaaaaaaaaaaaaaaaaaaaaaaaaaaaaaaaaaaaaaaa"

\* String.prototype.length of an id written as a sequence of words and
\* separators
RECURSIVE Length(_)
Length(s) == IF s = <<>> THEN 0 ELSE Len(Head(s)) + Length(Tail(s))

\* the characters the model writes that /[^\w\-_]/g matches
Unsafe == {":", " "}

\* customId.replace(/[^\w\-_]/g, '')
RECURSIVE Sanitize(_)
Sanitize(s) ==
    IF s = <<>> THEN <<>>
    ELSE IF Head(s) \in Unsafe THEN Sanitize(Tail(s))
    ELSE <<Head(s)>> \o Sanitize(Tail(s))

validateCustomId(customId) ==
    IF customId = <<>>
    THEN [isValid |-> FALSE, sanitized |-> <<>>, error |-> "INVALID_INPUT"]
    ELSE IF Length(customId) > MAX_CUSTOM_ID_LENGTH
    THEN [isValid |-> FALSE, sanitized |-> <<>>, error |-> "INVALID_INPUT"]
    ELSE IF Sanitize(customId) = <<>>
    THEN [isValid |-> FALSE, sanitized |-> <<>>, error |-> "SANITIZATION_FAILED"]
    ELSE [isValid |-> TRUE, sanitized |-> Sanitize(customId), error |-> "none"]

Rejected(error) ==
    [isValid |-> FALSE, action |-> <<>>, sessionId |-> NoId, extra |-> <<>>,
     error |-> error]

\* parseSearchCustomId(customId): SEARCH_PREFIX is /^search_/
parseSearchCustomId(customId) ==
    LET validation == validateCustomId(customId)
        sanitizedId == validation.sanitized
        parts == Split(sanitizedId, "_")
        prefix == parts[1]
        action == parts[2]
        rest == SubSeq(parts, 3, Len(parts))
        sessionId == rest[1]
        extra == Tail(rest)
        checked == IF sessionId = <<>> \/ Length(sessionId) > MAX_SESSION_ID_LENGTH
                   THEN Rejected("INVALID_INPUT")
                   ELSE [isValid |-> TRUE, action |-> action,
                         sessionId |-> sessionId, extra |-> extra, error |-> "none"]
    IN  IF ~validation.isValid THEN Rejected(validation.error)
        ELSE IF ~(Len(sanitizedId) >= 2 /\ sanitizedId[1] = "search"
                                       /\ sanitizedId[2] = "_")
        THEN Rejected("MALFORMED_CUSTOM_ID")
        ELSE IF Len(parts) < 3 THEN Rejected("MALFORMED_CUSTOM_ID")
        ELSE IF prefix # <<"search">> THEN Rejected("MALFORMED_CUSTOM_ID")
        ELSE IF action = <<"toggle">>
        THEN IF Len(rest) < 2 THEN Rejected("MALFORMED_CUSTOM_ID")
             ELSE LET trackIndex == parseInt(extra[1])
                  IN  IF trackIndex.nan \/ trackIndex.n < 0
                      THEN Rejected("INVALID_INPUT")
                      ELSE checked
        ELSE IF action \in {<<"prev">>, <<"next">>, <<"cancel">>}
        THEN IF Len(rest) < 1 THEN Rejected("MALFORMED_CUSTOM_ID") ELSE checked
        ELSE Rejected("MALFORMED_CUSTOM_ID")

\* ids that are not well formed, around the session ids given: the empty id,
\* too few parts, a wrong prefix, an unknown action, a toggle without an
\* index, with an index that is no number and with a negative one, an empty
\* and an over-long session id, an over-long id
MalformedIds(ids) ==
    {<<>>, <<"search", "_", "prev">>,
     NavCustomId("_", "prev", <<>>),
     NavCustomId("_", "prev", <<LongWord>>),
     NavCustomId("_", "prev", <<LongWord, "-", LongWord>>)}
    \cup {<<"player", "_", "prev", "_">> \o id : id \in ids}
    \cup {NavCustomId("_", "foo", id) : id \in ids}
    \cup {NavCustomId("_", "toggle", id) : id \in ids}
    \cup {NavCustomId("_", "toggle", id) \o <<"_", "x">> : id \in ids}
    \cup {NavCustomId("_", "toggle", id) \o <<"_", "-", "1">> : id \in ids}

\* the ids of the buttons of a search message for the session
WellFormedIds(ids) ==
    {NavCustomId("_", a, id) : a \in {"prev", "next", "cancel"}, id \in ids}
    \cup {ToggleCustomId("_", id, i) : id \in ids, i \in ToggleIndices}

\* the session ids of both makers: searchSessions.createSession and
\* generateSecureSessionId
MadeIds == {SessionIdOf(u, 0) : u \in Users} \cup CandidateIds

CallParseSearchCustomId ==
    \E customId \in WellFormedIds(MadeIds) \cup MalformedIds(MadeIds) :
        /\ call' = [op |-> "parseSearchCustomId", id |-> customId, arg |-> 0,
                    ret |-> parseSearchCustomId(customId).isValid, count |-> 0,
                    result |-> parseSearchCustomId(customId)]
        /\ UNCHANGED <<searchRest, player, msgVars>>

\* a button interaction with an id no builder made reaches
\* handleSearchNavigation
MalformedNavigation ==
    \E customId \in MalformedIds(Range(returnedIds)), userId \in Users :
        LET o == handleSearchNavigation(customId, userId, sessions, player)
        IN  /\ Len(immediates) < MaxPending
            /\ sessions' = o.sessions
            /\ immediates' = immediates \o o.immediates
            /\ reply' = o.reply
            /\ call' = [op |-> "handleSearchNavigation", id |-> customId, arg |-> 0,
                        ret |-> FALSE, count |-> 0, result |-> Rejected("none")]
            /\ UNCHANGED <<now, returnedIds, nextSweep, player, searching, msgVars>>

ParseNext ==
    \/ SearchStart
    \/ SearchDone
    \/ PlayerDestroy
    \/ CallParseSearchCustomId
    \/ MalformedNavigation

ParseSpec == StoreInit /\ [][ParseNext]_vars

----------------------------------------------------------------------------
(* Claims about the session store *)

TotalPagesOf(session) == Ceil(Len(session.tracks), session.tracksPerPage)

\* C1 as stated: every stored session has
\* 1 <= currentPage <= ceil(|tracks| / tracksPerPage).
C1_PageWithinCeil ==
    \A id \in DOMAIN sessions :
        /\ 1 <= sessions[id].currentPage
        /\ sessions[id].currentPage <= TotalPagesOf(sessions[id])

\* C1 amended: every stored session has
\* 1 <= currentPage <= max(1, ceil(|tracks| / tracksPerPage)); a session
\* without tracks stays on page 1 although its page count is 0.
C1_PageWithinBounds ==
    \A id \in DOMAIN sessions :
        /\ 1 <= sessions[id].currentPage
        /\ sessions[id].currentPage <= Max(1, TotalPagesOf(sessions[id]))

\* a request above the page count has just been saturated to the last page
C1_Witness ==
    /\ call.op = "updatePage"
    /\ call.id \in DOMAIN sessions
    /\ call.arg > TotalPagesOf(sessions[call.id])
    /\ TotalPagesOf(sessions[call.id]) > 1
    /\ sessions[call.id].currentPage = TotalPagesOf(sessions[call.id])

C3_ReturnedIdsDistinct ==
    \A i, j \in 1..Len(returnedIds) :
        i # j => returnedIds[i] # returnedIds[j]

\* C7 as stated: cleanupOldSessions(0) on a non-empty store removes every
\* session and returns how many it removed.
C7_SweepZeroRemovesAll ==
    [][ (call'.op = "cleanupOldSessions" /\ call'.arg = 0 /\ DOMAIN sessions # {}) =>
          /\ DOMAIN sessions' = {}
          /\ call'.count = Cardinality(DOMAIN sessions)
      ]_vars

\* C7 amended: cleanupOldSessions(0) removes every session created before
\* the clock reading of the sweep and returns how many it removed; a session
\* created in the millisecond of the sweep stays stored.
C7_SweepZeroRemovesEarlier ==
    [][ (call'.op = "cleanupOldSessions" /\ call'.arg = 0 /\ DOMAIN sessions # {}) =>
          /\ DOMAIN sessions' = {id \in DOMAIN sessions : sessions[id].createdAt >= now}
          /\ call'.count = Cardinality({id \in DOMAIN sessions : sessions[id].createdAt < now})
      ]_vars

\* a sweep with maxAge 0 has just removed a session and kept another
C7_Witness ==
    /\ call.op = "cleanupOldSessions"
    /\ call.arg = 0
    /\ call.count >= 1
    /\ \E id \in DOMAIN sessions : sessions[id].createdAt = now

\* C8: cleanupOldSessions(maxAge) removes exactly the sessions older than
\* maxAge, leaves the others as they were and returns the number removed.
C8_CleanupRemovesExactlyOld ==
    [][ call'.op = "cleanupOldSessions" =>
          LET old == {id \in DOMAIN sessions :
                          sessions[id].createdAt + call'.arg < now}
          IN  /\ DOMAIN sessions' = DOMAIN sessions \ old
              /\ \A id \in DOMAIN sessions' : sessions'[id] = sessions[id]
              /\ call'.count = Cardinality(old)
      ]_vars

\* a sweep with a positive maxAge has just removed a session and kept a
\* younger one
C8_Witness ==
    /\ call.op = "cleanupOldSessions"
    /\ call.arg > 0
    /\ call.count >= 1
    /\ DOMAIN sessions # {}

\* the ids createSession has returned of which no session is stored any more
DeletedIds == Range(returnedIds) \ DOMAIN sessions

\* C11: once a session has been deleted, its id is never used again: no later
\* createSession stores a session under that id (so that interactions that
\* carry the id keep getting the session-expired reply).
C11_DeletedIdNeverReused ==
    [][ call'.op = "createSession" => call'.id \notin DeletedIds ]_vars

\* C12: a deleted session is not found, and every method called with the id
\* of an absent session returns its "nothing there" value (evaluating it is
\* defined: the method does not throw) and leaves the store as it is.
C12_AbsentSessionHarmless ==
    /\ \A id \in DOMAIN sessions :
           getSession(deleteSession(sessions, id).sessions, id).ret = Null
    /\ \A id \in DeletedIds \cup {UnknownId} :
           /\ getSession(sessions, id) = [sessions |-> sessions, ret |-> Null]
           /\ getSelectedTracks(sessions, id) = [sessions |-> sessions, ret |-> <<>>]
           /\ getCurrentPageData(sessions, id) = [sessions |-> sessions, ret |-> Null]
           /\ clearSelections(sessions, id) = [sessions |-> sessions, ret |-> FALSE]
           /\ deleteSession(sessions, id) = [sessions |-> sessions, ret |-> FALSE]
           /\ \A page \in PageRequests :
                  updatePage(sessions, id, page) = [sessions |-> sessions, ret |-> FALSE]
           /\ \A trackIndex \in ProbeIndices(1) :
                  /\ toggleTrackSelection(sessions, id, trackIndex)
                         = [sessions |-> sessions, ret |-> FALSE]
                  /\ markTrackQueued(sessions, id, trackIndex)
                         = [sessions |-> sessions, ret |-> FALSE]
                  /\ unmarkTrackQueued(sessions, id, trackIndex)
                         = [sessions |-> sessions, ret |-> FALSE]
                  /\ isTrackQueued(sessions, id, trackIndex)
                         = [sessions |-> sessions, ret |-> FALSE]

\* a session with tracks was deleted while another session stays stored
C12_Witness ==
    /\ DeletedIds # {}
    /\ DOMAIN sessions # {}
    /\ call = Quiet
    /\ \E id \in DOMAIN sessions : sessions[id].selectedTracks # {}

\* C13: for every session and every index in range, toggling the index twice
\* gives back the store as it was, and the first call returns the negation
\* of what the second returns.
C13_ToggleTwiceRestores ==
    \A id \in DOMAIN sessions :
        \A trackIndex \in 0..(Len(sessions[id].tracks) - 1) :
            LET first == toggleTrackSelection(sessions, id, trackIndex)
                second == toggleTrackSelection(first.sessions, id, trackIndex)
            IN  /\ second.sessions = sessions
                /\ first.ret = ~second.ret

\* a session that holds tracks, one of them selected and others not
C13_Witness ==
    \E id \in DOMAIN sessions :
        /\ sessions[id].selectedTracks # {}
        /\ Cardinality(sessions[id].selectedTracks) < Len(sessions[id].tracks)

----------------------------------------------------------------------------
(* Claims about the program *)

\* the session ids the program can hand out within the bounds
ProgramIds == {SessionIdOf(userId, t) : userId \in Users, t \in 0..MaxMs}

\* C5: whenever the handler finds the session an interaction names and the
\* user is not its owner, it replies with the ownership error, and the store
\* (so the session's page, selection and queued set, and its presence), the
\* player and its queue, and the scheduled callbacks stay as they were.
\* (Every step but the sweep records in `reply` the interaction it handled,
\* or that it handled none.)
C5_NonOwnerRejected ==
    [][ ( /\ reply'.sessionId \in DOMAIN sessions
          /\ sessions[reply'.sessionId].userId # reply'.userId
          /\ call'.op # "cleanupOldSessions" )
        => /\ reply'.text = "SEARCH_NOT_YOUR_SESSION"
           /\ sessions' = sessions
           /\ player' = player
           /\ immediates' = immediates ]_vars

\* a user who does not own the stored session got the ownership error while
\* a player exists and the session has more than one page
C5_Witness ==
    /\ reply.text = "SEARCH_NOT_YOUR_SESSION"
    /\ reply.sessionId \in DOMAIN sessions
    /\ sessions[reply.sessionId].userId # reply.userId
    /\ player.exists

\* C6: a colon-format button id for a stored session, pressed by its owner
\* while a player exists and handed over by the button router, is acknowledged
\* and takes effect: next changes the page of a session on its first of
\* several pages, cancel deletes the session, toggle flips the selection.
C6_ColonIdDispatched ==
    [][ \A id \in DOMAIN sessions :
          LET owner == sessions[id].userId
          IN  /\ ( /\ player.exists
                   /\ handleButtonInteraction(NavCustomId(":", "cancel", id), owner) )
                 => /\ reply'.text = "update"
                    /\ id \notin DOMAIN sessions'
              /\ ( /\ player.exists
                   /\ sessions[id].currentPage < TotalPagesOf(sessions[id])
                   /\ handleButtonInteraction(NavCustomId(":", "next", id), owner) )
                 => /\ reply'.text = "deferUpdate"
                    /\ sessions'[id].currentPage = sessions[id].currentPage + 1
              /\ ( /\ player.exists
                   /\ handleButtonInteraction(ToggleCustomId(":", id, 0), owner) )
                 => /\ reply'.text = "deferUpdate"
                    /\ sessions'[id].selectedTracks # sessions[id].selectedTracks ]_vars

\* C9 as stated: the periodic sweep never removes a session whose owner paged
\* or toggled it less than 30 minutes before; here, at the same clock reading.
C9_SweepSparesActive ==
    [][ ( /\ call'.op = "cleanupOldSessions"
          /\ reply.touched
          /\ reply.sessionId \in DOMAIN sessions )
        => reply.sessionId \in DOMAIN sessions' ]_vars

\* C9, amended: the periodic sweep removes a session only when it was created
\* more than 30 minutes before, whatever interactions it has received.
C9_SweepRemovesOnlyOld ==
    [][ call'.op = "cleanupOldSessions"
        => \A id \in DOMAIN sessions :
               id \notin DOMAIN sessions'
               => now - sessions[id].createdAt > SESSION_MAX_AGE ]_vars

\* the periodic sweep has just removed the session its owner had paged or
\* toggled at the same clock reading
C9_Witness ==
    /\ call.op = "cleanupOldSessions"
    /\ call.count >= 1
    /\ reply.touched
    /\ reply.sessionId \notin DOMAIN sessions
    /\ nextSweep = now + SWEEP_INTERVAL

\* C10: every session that is stored is eventually not stored, as long as the
\* interval keeps firing and whatever interactions arrive.
C10_EverySessionRemoved ==
    \A id \in ProgramIds : (id \in DOMAIN sessions) ~> (id \notin DOMAIN sessions)

\* the periodic sweep has emptied a store that held a session, which nobody
\* cancelled: its player still exists
C10_Witness ==
    /\ call.op = "cleanupOldSessions"
    /\ call.count >= 1
    /\ returnedIds # <<>>
    /\ sessions = <<>>
    /\ player.exists
    /\ now > SESSION_MAX_AGE

----------------------------------------------------------------------------
(* Claims about the now-playing messages *)

\* C4: at every moment each guild has at most one now-playing message that is
\* posted and not deleted, also when /play and a toggle's delayed refresh both
\* read "no record" before either send completes.
C4_OneLiveMessage ==
    \A guildId \in Guilds : Cardinality({m \in live : m.guildId = guildId}) <= 1

----------------------------------------------------------------------------
(* Claims about toggles out of range *)

\* C14: a toggle with an index below 0 or at or above |tracks| fails silently:
\* toggleTrackSelection returns false and the store (selectedTracks,
\* queuedTracks, currentPage) stays as it was, and the interaction that
\* carried the index schedules nothing and leaves the player's queue alone.
C14_OutOfRangeToggleInert ==
    [][ ( /\ call'.op = "toggleTrackSelection"
          /\ call'.id \in DOMAIN sessions
          /\ \/ call'.arg < 0
             \/ call'.arg >= Len(sessions[call'.id].tracks) )
        => /\ call'.ret = FALSE
           /\ sessions' = sessions
           /\ immediates' = immediates
           /\ player' = player
           /\ reply'.text = "deferUpdate" ]_vars

\* the owner's toggle with an index beyond the tracks was handled while the
\* session had a track selected and the player a track in its queue
C14_Witness ==
    /\ call.op = "toggleTrackSelection"
    /\ call.id \in DOMAIN sessions
    /\ call.arg >= Len(sessions[call.id].tracks)
    /\ sessions[call.id].selectedTracks # {}
    /\ player.exists
    /\ player.queue # <<>>

----------------------------------------------------------------------------
(* Claims about the page view of a session *)

\* C16: in the page view of every session, startIndex is
\* (currentPage - 1) * pageSize counted from zero, endIndex is
\* min(startIndex + pageSize, totalItems), the items are exactly
\* tracks[startIndex..endIndex), hasNext holds iff currentPage < totalPages
\* and hasPrevious holds iff currentPage > 1.
C16_PageViewWindow ==
    \A id \in DOMAIN sessions :
        LET session == sessions[id]
            n == Len(session.tracks)
            view == getCurrentPageData(sessions, id).ret
        IN  /\ view.startIndex = (session.currentPage - 1) * session.tracksPerPage
            /\ view.endIndex = Min(view.startIndex + session.tracksPerPage, n)
            /\ Len(view.tracks) = view.endIndex - view.startIndex
            /\ \A k \in 1..Len(view.tracks) :
                   view.tracks[k] = session.tracks[view.startIndex + k]
            /\ view.hasNext <=> (session.currentPage < Ceil(n, session.tracksPerPage))
            /\ view.hasPrevious <=> (session.currentPage > 1)
            /\ call.op = "getCurrentPageData" /\ call.id = id => call.data = view

\* the view of the last page of a session of three pages was built: it
\* starts at index 2 * pageSize and holds the rest of the tracks
C16_Witness ==
    /\ call.op = "getCurrentPageData"
    /\ call.id \in DOMAIN sessions
    /\ sessions[call.id].currentPage = 3
    /\ call.data.startIndex = 2 * TRACKS_PER_PAGE
    /\ call.data.endIndex = Len(sessions[call.id].tracks)
    /\ call.data.tracks # <<>>
    /\ ~call.data.hasNext
    /\ call.data.hasPrevious

\* C18: for a session that holds zero tracks getCurrentPageData reports
\* exactly one page (totalPages = 1, currentPage = 1) with no items and with
\* hasNext = hasPrevious = false.
C18_EmptySessionOnePage ==
    \A id \in DOMAIN sessions :
        sessions[id].tracks = <<>> =>
            LET view == getCurrentPageData(sessions, id).ret
            IN  /\ view.totalPages = 1
                /\ view.currentPage = 1
                /\ view.tracks = <<>>
                /\ ~view.hasNext
                /\ ~view.hasPrevious

----------------------------------------------------------------------------
(* Claims about the player's queue *)

\* the tracks of pages first..totalPages of the queue, one after the other
RECURSIVE PagesFrom(_, _, _)
PagesFrom(P, first, itemsPerPage) ==
    LET view == paginatedQueue(P, first, itemsPerPage)
    IN  IF first > view.totalPages THEN <<>>
        ELSE view.tracks \o PagesFrom(P, first + 1, itemsPerPage)

\* C15: for every non-empty queue of n tracks and every page size >= 1,
\* paginatedQueue reports totalPages = ceil(n / pageSize) on every page asked
\* for, and the tracks of pages 1..totalPages, one after the other, are the
\* queue in its order, no track missing or repeated.
C15_PagesPartitionQueue ==
    player.queue # <<>> =>
        \A itemsPerPage \in PageSizes :
            /\ \A page \in PageRequests \cup {1} :
                   paginatedQueue(player, page, itemsPerPage).totalPages
                       = Ceil(Len(player.queue), itemsPerPage)
            /\ PagesFrom(player, 1, itemsPerPage) = player.queue
            /\ ( /\ call.op = "paginatedQueue"
                 /\ call.count = itemsPerPage )
               => call.data = paginatedQueue(player, call.arg, itemsPerPage)

\* the second and last page of a queue of ten tracks, nine to the page, was
\* asked for
C15_Witness ==
    /\ call.op = "paginatedQueue"
    /\ call.count = MenuItemsPerPage
    /\ call.arg = 2
    /\ Len(player.queue) = MenuItemsPerPage + 1
    /\ call.data.totalPages = 2
    /\ call.data.tracks = <<player.queue[MenuItemsPerPage + 1]>>

\* C17: for an empty queue paginatedQueue returns currentPage = 1,
\* totalPages = 1, hasNext = false and hasPrevious = false whatever page is
\* asked for; for a non-empty queue a page below 1 or above totalPages is
\* clamped into 1..totalPages. Both versions of the function do so.
C17_EmptyQueueAndClamp ==
    player.exists =>
        \A page \in PageRequests \cup {1}, itemsPerPage \in PageSizes :
            LET new == paginatedQueue(player, page, itemsPerPage)
                old == PlayerActions_paginatedQueue(player, page, itemsPerPage)
                totalPages == Ceil(Len(player.queue), itemsPerPage)
            IN  IF player.queue = <<>>
                THEN /\ new.currentPage = 1 /\ new.totalPages = 1
                     /\ ~new.hasNext /\ ~new.hasPrevious
                     /\ old.currentPage = 1 /\ old.totalPages = 1
                     /\ ~old.hasNext /\ ~old.hasPrevious
                ELSE /\ new.currentPage = Max(1, Min(page, totalPages))
                     /\ old.currentPage = new.currentPage
                     /\ new.currentPage \in 1..new.totalPages
                     /\ old.currentPage \in 1..old.totalPages

\* page BigPage of a queue of several pages was asked for and the last page
\* came back
C17_Witness ==
    /\ call.op = "paginatedQueue"
    /\ call.arg = BigPage
    /\ player.queue # <<>>
    /\ call.data.totalPages > 1
    /\ call.data.currentPage = call.data.totalPages

\* C19: jumpToTrack(player, i) with 0 <= i < n on a queue of n tracks removes
\* exactly the i tracks before index i: when skip is called, once, the queue
\* holds the other n - i tracks in their order with the target at the head,
\* and the track that was at index i is returned.
C19_JumpRemovesPrefix ==
    [][ ( /\ call'.op = "jump"
          /\ call'.ret
          /\ call'.arg >= 0
          /\ call'.arg < Len(player.queue) )
        => LET i == call'.arg
               n == Len(player.queue)
           IN  /\ call'.track = player.queue[i + 1]
               /\ call'.count = 1
               /\ Len(call'.skipped) = 1
               /\ Len(call'.skipped[1]) = n - i
               /\ \A k \in 1..(n - i) : call'.skipped[1][k] = player.queue[i + k]
               /\ Head(call'.skipped[1]) = call'.track ]_vars

\* a jump to index 2 of a queue of five was made: three tracks were left when
\* skip was called, and the former third track plays
C19_Witness ==
    /\ call.op = "jump"
    /\ call.arg = 2
    /\ call.count = 1
    /\ Len(call.skipped[1]) = 3
    /\ player.current = call.track
    /\ Len(player.queue) = 2
    /\ reply.text = "queue"

\* C20 (as stated): with an index below 0 or at or above the queue length, or
\* on an empty queue, jumpToTrack returns null, does not call skip and leaves
\* the queue as it was, and the queue handler replies with the invalid-index
\* message and does not redraw the queue.
C20_InvalidJumpRejected ==
    [][ ( /\ call'.op = "jump"
          /\ \/ call'.arg < 0
             \/ call'.arg >= Len(player.queue) )
        => /\ jumpToTrack(player, call'.arg)
                  = [player |-> player, skipped |-> <<>>, ret |-> -1]
           /\ call'.count = 0
           /\ player' = player
           /\ reply'.text = "QUEUE_JUMP_INVALID"
           /\ ~reply'.shouldUpdate ]_vars

\* C20 (amended): in these cases jumpToTrack returns null, does not call skip
\* and leaves the queue as it was. The handler replies with the invalid-index
\* message, without redrawing, when the queue holds tracks; on an empty queue
\* it does not call jumpToTrack and redraws the message as the queue-empty
\* text.
C20_InvalidJumpRejectedOrQueueEmpty ==
    [][ ( /\ call'.op = "jump"
          /\ \/ call'.arg < 0
             \/ call'.arg >= Len(player.queue) )
        => /\ jumpToTrack(player, call'.arg)
                  = [player |-> player, skipped |-> <<>>, ret |-> -1]
           /\ call'.count = 0
           /\ player' = player
           /\ IF player.queue # <<>>
              THEN /\ call'.ret
                   /\ call'.track = -1
                   /\ reply'.text = "QUEUE_JUMP_INVALID"
                   /\ ~reply'.shouldUpdate
              ELSE /\ ~call'.ret
                   /\ reply'.text = "QUEUE_EMPTY"
                   /\ reply'.shouldUpdate ]_vars

\* a jump to the index just past the end of a queue of two tracks was refused
C20_Witness ==
    /\ call.op = "jump"
    /\ call.ret
    /\ call.arg = Len(player.queue)
    /\ call.track = -1
    /\ Len(player.queue) = 2
    /\ reply.text = "QUEUE_JUMP_INVALID"

----------------------------------------------------------------------------
(* Claims about the failures of the PlayerController *)

\* C21: when the fetch or the edit of updatePlayer fails, whatever the reason
\* (message deleted, channel missing from the cache, or the timeout first),
\* the guild's record is removed from the registry, the call is over without a
\* retry and without throwing; a timeout has the effect of any other failure.
C21_UpdateFailureDropsRecord ==
    [][ ( /\ call'.op = "updatePlayer"
          /\ call'.outcome \in Failures \cup {"channelMissing"} )
        => /\ playerMessages' = Forget(playerMessages, call'.guildId)
           /\ call'.guildId \notin DOMAIN playerMessages'
           /\ call'.ret
           /\ \A c \in Callers : calls'[c] = calls[c] \/ calls'[c] = Idle
           /\ \A c \in Callers : calls[c].pc = "idle" => calls'[c] = Idle
           /\ live' = live
           /\ player' = player ]_vars

\* the edit of updatePlayer timed out while the message was still there, and
\* the record is gone
C21_Witness ==
    /\ call.op = "updatePlayer"
    /\ call.outcome = "actTimeout"
    /\ call.guildId \notin DOMAIN playerMessages
    /\ live # {}
    /\ \A c \in Callers : calls[c].pc = "idle"

\* C22: when deletePlayer(guildId) completes, the registry has no record for
\* the guild, whether the fetch or the delete succeeded, failed or timed out
\* and whether or not the channel is still known; it never throws.
C22_DeleteAlwaysClears ==
    [][ ( /\ call'.op = "deletePlayer"
          /\ call'.outcome # "awaiting" )
        => /\ call'.guildId \notin DOMAIN playerMessages'
           /\ call'.ret
           /\ call'.outcome # "threw"
           /\ calls'["event"].pc = "idle" ]_vars

\* the fetch of deletePlayer failed for a message that is still there, and
\* the record is gone
C22_Witness ==
    /\ call.op = "deletePlayer"
    /\ call.outcome = "fetchTimeout"
    /\ call.guildId \notin DOMAIN playerMessages
    /\ live # {}

----------------------------------------------------------------------------
(* Claims about the cleanup of the registry *)

\* C23: after cleanupPlayerMessages every remaining record refers to a guild
\* and a channel the client still knows, there are at most
\* MAX_PLAYER_MESSAGES records, and the records evicted to meet the cap are
\* those with the oldest createdAt: no evicted record is newer than a record
\* that stays, also when a guild's record was replaced by a later sendPlayer.
C23_CleanupEvictsOldest ==
    [][ call'.op = "cleanupPlayerMessages"
        => LET Known(g) == /\ g \in call'.guilds
                           /\ playerMessages[g].channelId \in call'.channels
               evicted == {g \in DOMAIN playerMessages :
                               Known(g) /\ g \notin DOMAIN playerMessages'}
           IN  /\ \A g \in DOMAIN playerMessages' :
                      /\ g \in DOMAIN playerMessages
                      /\ Known(g)
               /\ Cardinality(DOMAIN playerMessages') <= call'.arg
               /\ \A e \in evicted, k \in DOMAIN playerMessages' :
                      playerMessages[e].createdAt <= playerMessages[k].createdAt
      ]_vars

----------------------------------------------------------------------------
(* Claims about the interactions that control the player *)

\* C24: no failure leaves the entry point of the interactions: whatever step
\* throws (the permission check, the handler, the call on the player, the
\* reply), for a button as for a slash command, the promise of execute does
\* not reject, and the failure is answered with the error message.
C24_NoFailureEscapes ==
    [][ call'.op = "execute"
        => /\ ~call'.ret
           /\ (call'.fails = "permission") => call'.errorReply ]_vars

\* C25: a control action (back, pause, stop, skip, shuffle, clear), from a
\* button or from a slash command, changes the player only if a player exists
\* and the member is in the player's voice channel.
C25_ControlNeedsSameVoice ==
    [][ ( /\ call'.op = "execute"
          /\ call'.action \in {"back", "playpause", "pause", "stop", "skip",
                               "shuffle", "clear"}
          /\ ~player.exists \/ ~call'.sameVoice )
        => player' = player ]_vars

\* C26: the loop action takes the repeat mode from off to track, from track
\* to queue and from queue to off, so three loop actions in a row return to
\* the mode they started from; a mode that is not set counts as off.
C26_LoopCycles ==
    /\ [][ ( /\ call'.op = "execute"
             /\ call'.action = "loop"
             /\ call'.reached )
           => /\ player.repeatMode = "off" => player'.repeatMode = "track"
              /\ player.repeatMode = "track" => player'.repeatMode = "queue"
              /\ player.repeatMode = "queue" => player'.repeatMode = "off"
              /\ LoopMode(LoopMode(player'.repeatMode)) = player.repeatMode ]_vars
    /\ [](LoopMode("unset") = "track")

\* a loop action has brought the mode back to off
C26_Witness ==
    /\ call.op = "execute"
    /\ call.action = "loop"
    /\ call.reached
    /\ player.exists
    /\ player.repeatMode = "off"

\* C27: with a history that is not empty, playPrevious takes exactly one
\* entry off the history, puts the current track at position 0 of the queue,
\* marks the track taken off as a resurrected one whatever client data it
\* carried, and plays it; with an empty history it returns null and changes
\* nothing.
C27_PreviousResurrected ==
    [][ ( /\ call'.op = "execute"
          /\ call'.action = "back"
          /\ call'.reached )
        => IF player.previous = <<>>
           THEN /\ call'.track = -1
                /\ player' = player
           ELSE /\ call'.track = Head(player.previous)
                /\ player'.previous = Tail(player.previous)
                /\ player'.queue = IF player.current # -1
                                   THEN <<player.current>> \o player.queue
                                   ELSE player.queue
                /\ player'.current = Head(player.previous)
                /\ player'.playing
                /\ Head(player.previous) \in player'.tagged ]_vars
----------------------------------------------------------------------------
(* Claims about the order of the acknowledgment and the queue mutation *)

\* C28: for a toggle the acknowledgment (deferUpdate) is issued before the
\* mutation of the queue runs, and does not wait for it: the step of the
\* handler that toggles a track issues deferUpdate and leaves the player as it
\* is, with the mutation handed to setImmediate and still pending; the step
\* that runs a pending mutation is never a step of the handler.
C28_AckBeforeMutation ==
    [][ /\ ( /\ call'.op = "toggleTrackSelection"
             /\ reply'.responseMessage )
           => /\ reply'.text = "deferUpdate"
              /\ player' = player
              /\ Len(immediates') = Len(immediates) + 1
              /\ immediates'[Len(immediates')].sessionId = call'.id
              /\ immediates'[Len(immediates')].trackIndex = call'.arg
        /\ ( /\ immediates # <<>>
             /\ immediates' = Tail(immediates) )
           => /\ call'.op # "toggleTrackSelection"
              /\ reply'.text # "deferUpdate"
        /\ player'.queue # player.queue
           => call'.op # "toggleTrackSelection" ]_vars

\* a toggle has been acknowledged while its queue.add is still to run
C28_Witness ==
    /\ call.op = "toggleTrackSelection"
    /\ call.ret
    /\ reply.text = "deferUpdate"
    /\ reply.responseMessage
    /\ immediates # <<>>
    /\ immediates[Len(immediates)].kind = "add"
    /\ immediates[Len(immediates)].track \notin Range(player.queue)
----------------------------------------------------------------------------
(* Claims about the generation of session ids *)

\* C29: generateSecureSessionId either returns an id that is not in
\* existingIds, the first such id it drew, or throws after exactly
\* MAX_COLLISION_RETRIES attempts that all collided; it never returns an id of
\* existingIds and never draws more ids than the budget.
C29_FreshIdOrFailure ==
    [][ call'.op = "generateSecureSessionId"
        => /\ call'.count <= MAX_COLLISION_RETRIES
           /\ \A i \in 1..(call'.count - 1) : call'.draws[i] \in call'.existingIds
           /\ IF call'.ret
              THEN /\ call'.count = MAX_COLLISION_RETRIES
                   /\ call'.draws[call'.count] \in call'.existingIds
              ELSE /\ call'.count >= 1
                   /\ call'.id = call'.draws[call'.count]
                   /\ call'.id \notin call'.existingIds ]_vars

\* the call failed after three ids that were all taken
C29_Witness ==
    /\ call.op = "generateSecureSessionId"
    /\ call.ret
    /\ call.count = MAX_COLLISION_RETRIES
    /\ \A i \in 1..MAX_COLLISION_RETRIES : call.draws[i] \in call.existingIds
    /\ call.existingIds # CandidateIds
----------------------------------------------------------------------------
(* Claims about the player a search creates *)

\* C30: when /search created the player for this search and the search fails
\* (no results, or an error thrown by the search), the player is destroyed
\* before the command finishes: the step that ends the command without a
\* session leaves no player of this search behind.
C30_FailedSearchDestroysPlayer ==
    [][ \A c \in searching :
            ( /\ c \notin searching'
              /\ returnedIds' = returnedIds
              /\ c.createdNewPlayer
              /\ player.exists
              /\ player.gen = c.gen )
            => ~player'.exists ]_vars
----------------------------------------------------------------------------
(* Claims about the custom ids of the search buttons *)

\* C31: a malformed search id is rejected before any session lookup:
\* parseSearchCustomId returns isValid = false with an error, and the handler
\* reads no session, changes no session and calls no operation of the player.
C31_MalformedIdRejected ==
    [][ /\ ( /\ call'.op = "parseSearchCustomId"
             /\ call'.id \in MalformedIds(MadeIds) )
           => /\ ~call'.result.isValid
              /\ call'.result.error # "none"
        /\ ( /\ call'.op = "handleSearchNavigation"
             /\ call'.id \in MalformedIds(Range(returnedIds)) )
           => /\ sessions' = sessions
              /\ immediates' = immediates
              /\ player' = player
              /\ reply'.text \notin {"SEARCH_SESSION_EXPIRED", "SEARCH_NOT_YOUR_SESSION",
                                     "SEARCH_PLAYER_STOPPED", "deferUpdate"} ]_vars

\* C36: for every session id made by generateSecureSessionId and every action
\* of prev, next, cancel and toggle (with an index from 0 on),
\* parseSearchCustomId of search_<action>_<sessionId>[_<index>] is valid and
\* gives back that action, that whole session id and that index.
C36_IdRoundTrip ==
    [][ ( /\ call'.op = "parseSearchCustomId"
          /\ \E id \in CandidateIds : call'.id \in WellFormedIds({id}) )
        => \E id \in CandidateIds :
              /\ call'.id \in WellFormedIds({id})
              /\ call'.result.isValid
              /\ call'.result.sessionId = id
              /\ \A a \in {"prev", "next", "cancel"} :
                    call'.id = NavCustomId("_", a, id) => call'.result.action = <<a>>
              /\ \A i \in ToggleIndices :
                    call'.id = ToggleCustomId("_", id, i)
                    => /\ call'.result.action = <<"toggle">>
                       /\ call'.result.extra # <<>>
                       /\ parseInt(call'.result.extra[1]) = [nan |-> FALSE, n |-> i] ]_vars
----------------------------------------------------------------------------
(* Claims about a search whose player is gone *)

\* C32: while no player exists, a button of a stored session pressed by its
\* owner changes no page, toggles nothing and hands nothing to the queue, and
\* is answered by the one reply SEARCH_PLAYER_STOPPED; for prev and next the
\* session stays as it is, for every other action it is deleted.
C32_NoPlayerNoNavigation ==
    ~player.exists =>
        \A id \in Range(returnedIds) \cap DOMAIN sessions :
            /\ \A a \in {"prev", "next"} :
                 LET o == handleSearchNavigation(NavCustomId("_", a, id),
                                                 sessions[id].userId, sessions, player)
                 IN  /\ o.sessions = sessions
                     /\ o.immediates = <<>>
                     /\ o.call.op # "toggleTrackSelection"
                     /\ o.reply.text = "SEARCH_PLAYER_STOPPED"
            /\ \A customId \in {NavCustomId("_", "cancel", id)}
                                \cup {ToggleCustomId("_", id, i) : i \in ToggleIndices} :
                 LET o == handleSearchNavigation(customId, sessions[id].userId,
                                                 sessions, player)
                 IN  /\ o.sessions = Restrict(sessions, DOMAIN sessions \ {id})
                     /\ o.immediates = <<>>
                     /\ o.call.op # "toggleTrackSelection"
                     /\ o.reply.text = "SEARCH_PLAYER_STOPPED"

\* the owner paged after the player was destroyed: the session is still
\* stored, on its first page and with nothing selected
C32_Witness ==
    /\ ~player.exists
    /\ reply.text = "SEARCH_PLAYER_STOPPED"
    /\ reply.sessionId \in DOMAIN sessions
    /\ reply.userId = sessions[reply.sessionId].userId
    /\ sessions[reply.sessionId].currentPage = 1
    /\ sessions[reply.sessionId].selectedTracks = {}
----------------------------------------------------------------------------
(* Claims about the end of playback *)

\* C33: after a queueEnd or playerDestroy event for a guild, and after a
\* trackEnd that leaves no current track, the guild's record is eventually
\* out of the registry and the guild out of activePlayers, unless playback
\* starts again for the guild.
C33_EndedPlaybackCleared ==
    \A g \in Guilds :
        ( \/ /\ call.op = "deletePlayer"
             /\ call.guildId = g
             /\ call.outcome \in {"nothingToDo", "channelMissing", "awaiting"}
          \/ calls["trackEnd"].pc = "timer" )
        ~> ( \/ /\ g \notin DOMAIN playerMessages
                /\ g \notin activePlayers
                /\ calls["trackEnd"].pc # "timer"
             \/ player.exists /\ player.playing )

\* the deletePlayer of an event has returned after a fetch or a delete that
\* failed, and the guild has neither a record nor an entry in activePlayers
C33_Witness ==
    /\ call.op = "deletePlayer"
    /\ call.outcome \in Failures
    /\ call.guildId \notin DOMAIN playerMessages
    /\ call.guildId \notin activePlayers
    /\ live # {}
    /\ ~(player.exists /\ player.playing)

----------------------------------------------------------------------------
(* Claims about the deferred work of the toggles *)

\* C34: once every setImmediate callback scheduled by the toggles has run, the
\* queuedTracks of each session equal its selectedTracks, whatever the toggles
\* and whatever the progress of playback.
C34_QueuedEqualsSelected ==
    immediates = <<>> =>
        \A id \in DOMAIN sessions :
            sessions[id].queuedTracks = sessions[id].selectedTracks

----------------------------------------------------------------------------
(* Claims about calls of the PlayerController that overlap *)

\* C35: updatePlayer and deletePlayer remove only the record they read when
\* they started: a record that sendPlayer stored for the guild while their
\* fetch, edit or delete was suspended is still in the registry when they
\* have finished.
C35_NewerRecordKept ==
    [][\A c \in Callers, g \in Guilds :
          ( /\ calls[c].pc \in {"updating", "deleting"}
            /\ calls'[c].pc = "idle"
            /\ g \in DOMAIN playerMessages
            /\ playerMessages[g].messageId # calls[c].messageId )
          => ( /\ g \in DOMAIN playerMessages'
               /\ playerMessages'[g].messageId = playerMessages[g].messageId )]_vars

----------------------------------------------------------------------------
(* Claims about /play *)

\* C37: a /play that fails on its connect or its search, by an error or a
\* timeout, does not destroy a player the guild had before the command: the
\* player, its queue and its current track are as before.
C37_FailedPlayKeepsPlayer ==
    [][( /\ call'.op = "play"
         /\ call'.outcome \in PlayFailures
         /\ player.exists )
       => ( /\ player'.exists
            /\ player'.queue = player.queue
            /\ player'.current = player.current )]_vars

----------------------------------------------------------------------------
(* Claims about the buttons of the queue view *)

\* C38: in every queue view with a navigation row the prev button carries
\* the displayed page minus one and the next button the displayed page plus
\* one, also when the requested page was clamped, and pressing a prev button
\* that is enabled shows a lower page than the one displayed.
C38_NavTargetsDisplayedPage ==
    [][/\ ( /\ call'.op = "createPaginatedQueueResponse"
            /\ ~queueMessage'.empty
            /\ queueMessage'.nav )
          => ( /\ queueMessage'.prev.page = queueMessage'.currentPage - 1
               /\ queueMessage'.next.page = queueMessage'.currentPage + 1 )
       /\ ( /\ call'.op = "createPaginatedQueueResponse"
            /\ call'.button = "prev"
            /\ ~queueMessage'.empty )
          => queueMessage'.currentPage < queueMessage.currentPage]_vars

\* C39: the queue view has exactly one jump button for each track listed on
\* the displayed page, in the order of the list, and the button carries the
\* zero-based queue index of its track (the number of its line minus one).
C39_JumpButtonPerTrack ==
    ~queueMessage.empty =>
        /\ Len(queueMessage.jumps) = Len(queueMessage.listed)
        /\ \A i \in 1..Len(queueMessage.listed) :
               i <= Len(queueMessage.jumps) =>
                   queueMessage.jumps[i] = queueMessage.listed[i][1] - 1

----------------------------------------------------------------------------
(* Claims about the shutdown *)

\* C40: whatever the number and the order of the initiateShutdown calls, each
\* cleanup task that was registered when the shutdown began has been started
\* exactly once from then on, also when tasks before it threw, and no task
\* is started without a shutdown or a second time by a later call.
C40_TasksStartedOnce ==
    \A i \in 1..Len(shutdown.cleanupTasks) :
        shutdown.started[i] =
            IF shutdown.isShuttingDown /\ i <= shutdown.executing THEN 1 ELSE 0

\* a second initiateShutdown was ignored while the first is under way, the
\* first task registered throws, and the tasks after it were started once
C40_Witness ==
    /\ call.op = "initiateShutdown"
    /\ call.ret
    /\ shutdown.executing = MaxTasks
    /\ shutdown.cleanupTasks[1] = "throws"
    /\ \A i \in 1..MaxTasks : shutdown.started[i] = 1
====
